---- MODULE Spec2Model ----
(***************************************************************************)
(* A model of the RAIS backend: the file type classifier, the three-stage  *)
(* pipeline (parse, validate, compute) that process_files orchestrates,    *)
(* the session / processed_data store it writes to, and cancel_upload.     *)
(*                                                                         *)
(* Strings are TLA+ strings; Python's substring test, lower() and the      *)
(* regular expressions of FILE_TYPE_PATTERNS are computed character by     *)
(* character.  Quantities are integers (the spreadsheets hold counts).     *)
(***************************************************************************)
EXTENDS Integers, Sequences, FiniteSets, TLC

VARIABLES
    \* ---- classifier (detect_file_type) ----
    cl_name,        \* the filename handed to detect_file_type
    cl_result,      \* its return value, "pending" before the call
    \* ---- defect pareto (compute_defect_pareto) ----
    pa_defects,     \* aggregator.defects: code -> month -> count
    pa_chart,       \* the ParetoChart returned, NoChart before the call
    \* ---- date conversion (excel_serial_to_date) ----
    ds_serial,      \* the cell value handed to excel_serial_to_date
    ds_date,        \* [called, date]: whether it has returned, and what (NoDate for None)
    \* ---- header scoring (score_row_as_header) ----
    hs_rows,        \* the rows handed to score_row_as_header
    hs_scores,      \* the score returned for each, <<>> before the calls
    \* ---- sheet extraction (parse_sheet) ----
    sh_sheet,       \* the worksheet handed to parse_sheet
    sh_header_row,  \* header_row_idx as parse_sheet settles it, 0 before the call
    sh_parsed,      \* [called, returned]: whether parse_sheet has returned, and what
    \* ---- validation (validate_parsed_data, one parse result at a time) ----
    vd_type,        \* the file type of the parse result validated last
    vd_item,        \* the parse result validated last
    vd_result,      \* the ValidationResult so far
    vd_count,       \* the number of parse results validated so far
    \* ---- one row, validated and then folded ----
    rw_item,        \* the row with its file type and sheet
    rw_result,      \* [called, returned]: the ValidationResult of validating the row
    rw_agg,         \* [called, returned]: the aggregator after folding the row
    \* ---- compute_kpis over the rows of a small batch ----
    kp_items,       \* the rows the extraction loops fold, in order
    kp_agg,         \* [called, returned]: the aggregator the loops leave
    kp_kpis,        \* [called, returned]: what compute_kpis returns for it
    \* ---- upload, process_files, cancel_upload ----
    session,        \* upload_sessions: upload id -> row
    processed_data, \* processed_data: upload id -> row
    upload_dir,     \* upload id -> whether settings.upload_dir / upload_id exists
    file_paths,     \* upload id -> the files saved for it (what process_files is given)
    task,           \* upload id -> the process_files task: its position and locals
    heap,           \* the DataAggregator objects allocated so far
    log,            \* upload id -> what the task has done so far (history)
    cancel_pc,      \* upload id -> position of a cancel_upload request in flight
    cancels,        \* upload id -> number of cancel_upload requests so far
    now,            \* the clock
    env             \* which uploads and batches this run of the system offers

cvars == <<cl_name, cl_result>>
pavars == <<pa_defects, pa_chart>>
dsvars == <<ds_serial, ds_date>>
hsvars == <<hs_rows, hs_scores>>
shvars == <<sh_sheet, sh_header_row, sh_parsed>>
vdvars == <<vd_type, vd_item, vd_result, vd_count>>
rwvars == <<rw_item, rw_result, rw_agg>>
kpvars == <<kp_items, kp_agg, kp_kpis>>
\* the variables of the function-level specifications
uvars == <<cvars, pavars, dsvars, hsvars, shvars, vdvars, rwvars, kpvars>>
pvars == <<session, processed_data, upload_dir, file_paths, task, heap, log,
           cancel_pc, cancels, now, env>>
vars == <<cl_name, cl_result, pa_defects, pa_chart, ds_serial, ds_date,
          hs_rows, hs_scores, sh_sheet, sh_header_row, sh_parsed,
          vd_type, vd_item, vd_result, vd_count, rw_item, rw_result, rw_agg,
          kp_items, kp_agg, kp_kpis, session, processed_data,
          upload_dir, file_paths, task, heap, log, cancel_pc, cancels, now, env>>

-----------------------------------------------------------------------------
(* Strings *)

UpperLetters == "ABCDEFGHIJKLMNOPQRSTUVWXYZ"
LowerLetters == "abcdefghijklmnopqrstuvwxyz"
Digits == "0123456789"

CharAt(s, i) == SubSeq(s, i, i)

\* Python: needle in hay
Contains(hay, needle) ==
    \E i \in 1..(Len(hay) - Len(needle) + 1) :
        SubSeq(hay, i, i + Len(needle) - 1) = needle

StartsWith(s, prefix) ==
    Len(s) >= Len(prefix) /\ SubSeq(s, 1, Len(prefix)) = prefix

UpperLetterSet == { CharAt(UpperLetters, i) : i \in 1..26 }
LowerLetterSet == { CharAt(LowerLetters, i) : i \in 1..26 }
DigitSet == { CharAt(Digits, i) : i \in 1..10 }

ToLowerMap ==
    [c \in UpperLetterSet |->
        CharAt(LowerLetters, CHOOSE i \in 1..26 : CharAt(UpperLetters, i) = c)]
ToUpperMap ==
    [c \in LowerLetterSet |->
        CharAt(UpperLetters, CHOOSE i \in 1..26 : CharAt(LowerLetters, i) = c)]

LowerChar(c) == IF c \in UpperLetterSet THEN ToLowerMap[c] ELSE c

UpperChar(c) == IF c \in LowerLetterSet THEN ToUpperMap[c] ELSE c

RECURSIVE StrLower(_)
\* Python: s.lower()
StrLower(s) ==
    IF s = "" THEN ""
    ELSE LowerChar(CharAt(s, 1)) \o StrLower(SubSeq(s, 2, Len(s)))

RECURSIVE StrUpper(_)
\* Python: s.upper()
StrUpper(s) ==
    IF s = "" THEN ""
    ELSE UpperChar(CharAt(s, 1)) \o StrUpper(SubSeq(s, 2, Len(s)))

IsDigit(c) == c \in DigitSet

-----------------------------------------------------------------------------
(* File type detection: src/backend/app/pipelines/parser.py *)

\* A pattern is a chain  part .* part .* part, optionally anchored with ^.
\* A part is a literal, or a run of `digits` decimal digits (\d{4}).
Lit(s)    == [lit |-> s, digits |-> 0]
DigitRun(n) == [lit |-> "", digits |-> n]
Pat(anchored, parts) == [anchored |-> anchored, parts |-> parts]

PartLen(part) == IF part.digits > 0 THEN part.digits ELSE Len(part.lit)

PartAt(s, part, p) ==
    /\ p >= 1
    /\ p + PartLen(part) - 1 <= Len(s)
    /\ IF part.digits > 0
       THEN \A k \in p..(p + part.digits - 1) : IsDigit(CharAt(s, k))
       ELSE SubSeq(s, p, p + Len(part.lit) - 1) = part.lit

RECURSIVE MatchFrom(_, _, _, _)
\* parts k.. of the chain can be placed in s[pos..], in order, without overlap
MatchFrom(s, parts, k, pos) ==
    IF k > Len(parts) THEN TRUE
    ELSE \E p \in pos..(Len(s) - PartLen(parts[k]) + 1) :
            /\ PartAt(s, parts[k], p)
            /\ MatchFrom(s, parts, k + 1, p + PartLen(parts[k]))

\* Python: re.search(pattern, s) is not None   ("." never meets a newline here)
re_search(pattern, s) ==
    IF pattern.anchored
    THEN /\ PartAt(s, pattern.parts[1], 1)
         /\ MatchFrom(s, pattern.parts, 2, 1 + PartLen(pattern.parts[1]))
    ELSE MatchFrom(s, pattern.parts, 1, 1)

\* The table, in the insertion order of the dict literal.
FILE_TYPE_PATTERNS == <<
    [file_type |-> "production_cumulative",
     patterns  |-> << Pat(FALSE, <<Lit("yearly"), Lit("production"), Lit("commulative")>>),
                      Pat(FALSE, <<Lit("production"), Lit("commulative"), DigitRun(4)>>) >>],
    [file_type |-> "cumulative",
     patterns  |-> << Pat(TRUE, <<Lit("commulative"), DigitRun(4)>>) >>],
    [file_type |-> "assembly",
     patterns  |-> << Pat(FALSE, <<Lit("assembly"), Lit("rejection"), Lit("report")>>) >>],
    [file_type |-> "visual",
     patterns  |-> << Pat(FALSE, <<Lit("visual"), Lit("inspection"), Lit("report")>>) >>],
    [file_type |-> "integrity",
     patterns  |-> << Pat(FALSE, <<Lit("balloon"), Lit("valve"), Lit("integrity")>>),
                      Pat(FALSE, <<Lit("integrity"), Lit("inspection")>>) >>],
    [file_type |-> "shopfloor",
     patterns  |-> << Pat(FALSE, <<Lit("shopfloor"), Lit("rejection"), Lit("report")>>) >> ]
>>

FileType == {"production_cumulative", "cumulative", "assembly", "visual",
             "integrity", "shopfloor", "unknown"}

\* name_lower = filename.lower()
name_lower(filename) == StrLower(filename)

RECURSIVE DetectLastMatch(_, _, _)
\* a classifier in which a later group overrides an earlier one
DetectLastMatch(name, g, k) ==
    IF g > Len(FILE_TYPE_PATTERNS) THEN "unknown"
    ELSE LET rest == DetectLastMatch(name, g + 1, 1)
         IN  IF rest # "unknown" THEN rest
             ELSE IF \E j \in k..Len(FILE_TYPE_PATTERNS[g].patterns) :
                        re_search(FILE_TYPE_PATTERNS[g].patterns[j], name)
                  THEN FILE_TYPE_PATTERNS[g].file_type
                  ELSE "unknown"

RECURSIVE DetectFrom(_, _, _)
\* the two nested for loops of detect_file_type, from group g, pattern k on
DetectFrom(name, g, k) ==
    IF g > Len(FILE_TYPE_PATTERNS) THEN "unknown"
    ELSE IF k > Len(FILE_TYPE_PATTERNS[g].patterns) THEN DetectFrom(name, g + 1, 1)
    ELSE IF re_search(FILE_TYPE_PATTERNS[g].patterns[k], name)
         THEN FILE_TYPE_PATTERNS[g].file_type
         ELSE DetectFrom(name, g, k + 1)

detect_file_type(filename) == DetectFrom(name_lower(filename), 1, 1)

-----------------------------------------------------------------------------
(* Python values: dicts keep insertion order, so a dict is a sequence of    *)
(* [k, v] entries with distinct keys.                                       *)

DictHas(d, key) == \E i \in 1..Len(d) : d[i].k = key
DictIdx(d, key) == CHOOSE i \in 1..Len(d) : d[i].k = key
DictGet(d, key, default) == IF DictHas(d, key) THEN d[DictIdx(d, key)].v ELSE default
\* d[key] = value
DictPut(d, key, value) ==
    IF DictHas(d, key) THEN [d EXCEPT ![DictIdx(d, key)].v = value]
    ELSE Append(d, [k |-> key, v |-> value])
DictKeys(d) == [i \in 1..Len(d) |-> d[i].k]
DictValues(d) == [i \in 1..Len(d) |-> d[i].v]

RECURSIVE SumSeq(_)
SumSeq(q) == IF Len(q) = 0 THEN 0 ELSE Head(q) + SumSeq(Tail(q))

Min(a, b) == IF a <= b THEN a ELSE b
Max(a, b) == IF a >= b THEN a ELSE b
Abs(a) == IF a < 0 THEN 0 - a ELSE a

\* round(num / den * 100, 2), as an integer number of hundredths of a percent
\* (nearest, ties to even; den > 0, num >= 0)
Pct2(num, den) ==
    LET q == (num * 10000) \div den
        r == (num * 10000) % den
    IN  IF 2 * r > den THEN q + 1
        ELSE IF 2 * r = den THEN q + (q % 2)
        ELSE q

IsLetter(c) == c \in UpperLetterSet \/ c \in LowerLetterSet

RECURSIVE TitleFrom(_, _)
TitleFrom(s, prevLetter) ==
    IF s = "" THEN ""
    ELSE LET c == CharAt(s, 1)
         IN  (IF prevLetter THEN LowerChar(c) ELSE UpperChar(c))
             \o TitleFrom(SubSeq(s, 2, Len(s)), IsLetter(c))
\* Python: s.title()
StrTitle(s) == TitleFrom(s, FALSE)

RECURSIVE StrReplaceChar(_, _, _)
\* Python: s.replace(old, new) for a one-character old
StrReplaceChar(s, old, new) ==
    IF s = "" THEN ""
    ELSE (IF CharAt(s, 1) = old THEN new ELSE CharAt(s, 1))
         \o StrReplaceChar(SubSeq(s, 2, Len(s)), old, new)

-----------------------------------------------------------------------------
(* Defect pareto: src/backend/app/pipelines/computation.py *)

\* defect_totals[defect_code] = sum(months.values())
defect_totals_of(defects) ==
    [i \in 1..Len(defects) |->
        [k |-> defects[i].k, v |-> SumSeq(DictValues(defects[i].v))]]

RECURSIVE InsertDesc(_, _)
\* x goes behind every entry whose count is >= its own (sorted() is stable)
InsertDesc(sorted, x) ==
    IF Len(sorted) = 0 THEN <<x>>
    ELSE IF Head(sorted).v >= x.v THEN <<Head(sorted)>> \o InsertDesc(Tail(sorted), x)
    ELSE <<x>> \o sorted

RECURSIVE SortByCountDesc(_)
\* sorted(items, key=lambda x: x[1], reverse=True)
SortByCountDesc(items) ==
    IF Len(items) = 0 THEN <<>>
    ELSE InsertDesc(SortByCountDesc(SubSeq(items, 1, Len(items) - 1)), items[Len(items)])

DefectData(code, count, total, cum) ==
    [defect_code |-> code,
     defect_name |-> StrTitle(StrReplaceChar(code, "_", " ")),
     category |-> "other",
     severity |-> "minor",
     count |-> count,
     percentage |-> IF total > 0 THEN Pct2(count, total) ELSE 0,
     cumulative_percentage |-> IF total > 0 THEN Pct2(cum, total) ELSE 0,
     sources |-> <<>>]

\* The threshold update of the loop body: cumulative is cum / total * 100.
\* Both branches assign idx, and both test threshold_80 == 0.
threshold_step(threshold_80, idx, cum, total) ==
    LET le80 == IF total > 0 THEN cum * 100 <= 80 * total ELSE TRUE
    IN  IF le80 /\ threshold_80 = 0 THEN idx
        ELSE IF ~le80 /\ threshold_80 = 0 THEN idx
        ELSE threshold_80

RECURSIVE ParetoLoop(_, _, _, _, _, _)
\* for idx, (code, count) in enumerate(sorted_defects)
ParetoLoop(sorted, i, total, cum, threshold_80, acc) ==
    IF i > Len(sorted)
    THEN [title |-> "Defect Pareto Analysis (Top 80%)",
          defects |-> acc,
          threshold_80 |-> threshold_80]
    ELSE LET cum2 == cum + sorted[i].v
         IN  ParetoLoop(sorted, i + 1, total, cum2,
                        threshold_step(threshold_80, i - 1, cum2, total),
                        Append(acc, DefectData(sorted[i].k, sorted[i].v, total, cum2)))

compute_defect_pareto(defects) ==
    LET totals == defect_totals_of(defects)
        sorted_defects == SortByCountDesc(totals)
        total == SumSeq(DictValues(totals))
    IN  ParetoLoop(sorted_defects, 1, total, 0, 0, <<>>)

-----------------------------------------------------------------------------
(* Cell values and string conversions *)

\* A cell value: None, a number or a string (one record shape for all three).
None == [t |-> "none", n |-> 0, s |-> ""]
Num(k) == [t |-> "num", n |-> k, s |-> ""]
Str(x) == [t |-> "str", n |-> 0, s |-> x]

IsNone(v) == v.t = "none"
IsNum(v) == v.t = "num"
IsStr(v) == v.t = "str"

IsSpace(c) == c \in {" ", "\n", "\t"}

RECURSIVE LStrip(_)
LStrip(s) ==
    IF s = "" THEN ""
    ELSE IF IsSpace(CharAt(s, 1)) THEN LStrip(SubSeq(s, 2, Len(s))) ELSE s

RECURSIVE RStrip(_)
RStrip(s) ==
    IF s = "" THEN ""
    ELSE IF IsSpace(CharAt(s, Len(s))) THEN RStrip(SubSeq(s, 1, Len(s) - 1)) ELSE s

\* Python: s.strip()
Strip(s) == RStrip(LStrip(s))

RECURSIVE NatToStr(_)
NatToStr(n) ==
    IF n < 10 THEN CharAt(Digits, n + 1)
    ELSE NatToStr(n \div 10) \o CharAt(Digits, (n % 10) + 1)

\* Python: str(n) for an int
IntToStr(n) == IF n < 0 THEN "-" \o NatToStr(0 - n) ELSE NatToStr(n)

Pad2(n) == IF n < 10 THEN "0" \o NatToStr(n) ELSE NatToStr(n)
Pad4(n) == IF n < 10 THEN "000" \o NatToStr(n)
           ELSE IF n < 100 THEN "00" \o NatToStr(n)
           ELSE IF n < 1000 THEN "0" \o NatToStr(n)
           ELSE NatToStr(n)

\* A native date cell (openpyxl hands a date-formatted cell over as a date):
\* the record shape of the other cell values, the date held as yyyymmdd.
DateCell(y, m, d) == [t |-> "date", n |-> y * 10000 + m * 100 + d, s |-> ""]
IsDate(v) == v.t = "date"

\* Python: str(value) for a cell value that is a number, a string or a date
ToStr(v) ==
    IF IsNum(v) THEN IntToStr(v.n)
    ELSE IF IsDate(v)
         THEN Pad4(v.n \div 10000) \o "-" \o Pad2((v.n \div 100) % 100)
              \o "-" \o Pad2(v.n % 100)
    ELSE v.s

DigitVal(c) == (CHOOSE i \in 1..10 : CharAt(Digits, i) = c) - 1

RECURSIVE DigitsToNat(_, _)
DigitsToNat(s, acc) ==
    IF s = "" THEN acc
    ELSE DigitsToNat(SubSeq(s, 2, Len(s)), acc * 10 + DigitVal(CharAt(s, 1)))

AllDigits(s) == s # "" /\ \A i \in 1..Len(s) : IsDigit(CharAt(s, i))

RECURSIVE StrRemoveChar(_, _)
\* Python: s.replace(c, "")
StrRemoveChar(s, c) ==
    IF s = "" THEN ""
    ELSE (IF CharAt(s, 1) = c THEN "" ELSE CharAt(s, 1))
         \o StrRemoveChar(SubSeq(s, 2, Len(s)), c)

\* A float the code computes with: n is its value, nan says it is not a number
\* (n then means nothing).  ok |-> FALSE stands for None or ValueError.
Float(k) == [ok |-> TRUE, n |-> k, nan |-> FALSE]
NaN == [ok |-> TRUE, n |-> 0, nan |-> TRUE]
NoFloat == [ok |-> FALSE, n |-> 0, nan |-> FALSE]

\* Python's >, < and abs on floats: every comparison with nan is false
FloatGe(a, b) == ~a.nan /\ ~b.nan /\ a.n >= b.n
FloatGt(a, b) == ~a.nan /\ ~b.nan /\ a.n > b.n
FloatLt(a, b) == ~a.nan /\ ~b.nan /\ a.n < b.n
FloatAbs(a) == [a EXCEPT !.n = IF @ < 0 THEN 0 - @ ELSE @]
FloatAdd(a, b) == IF a.nan \/ b.nan THEN NaN ELSE Float(a.n + b.n)
FloatSub(a, b) == IF a.nan \/ b.nan THEN NaN ELSE Float(a.n - b.n)

\* Python: float(cleaned) for the literals the sheets hold: an optional sign,
\* then decimal digits, or "nan" in any case.  NoFloat stands for ValueError.
ParseFloat(cleaned) ==
    LET signed == cleaned # "" /\ CharAt(cleaned, 1) \in {"-", "+"}
        body == IF signed THEN SubSeq(cleaned, 2, Len(cleaned)) ELSE cleaned
    IN  IF AllDigits(body)
        THEN Float(IF signed /\ CharAt(cleaned, 1) = "-"
                   THEN 0 - DigitsToNat(body, 0) ELSE DigitsToNat(body, 0))
        ELSE IF StrLower(body) = "nan" THEN NaN
        ELSE NoFloat

-----------------------------------------------------------------------------
(* Sheet extraction: src/backend/app/pipelines/parser.py *)

\* A worksheet: [title, grid, merged]; grid[r][c] is the value of cell (r, c),
\* merged a sequence of ranges [min_row, max_row, min_col, max_col].
max_row(sheet) == Len(sheet.grid)
max_column(sheet) == IF Len(sheet.grid) = 0 THEN 0 ELSE Len(sheet.grid[1])
cell_value(sheet, r, c) == sheet.grid[r][c]

RECURSIVE UnmergeFrom(_, _, _)
UnmergeFrom(grid, ranges, i) ==
    IF i > Len(ranges) THEN grid
    ELSE LET rg == ranges[i]
             value == grid[rg.min_row][rg.min_col]
             filled == [r \in 1..Len(grid) |->
                          [c \in 1..Len(grid[r]) |->
                              IF /\ rg.min_row <= r /\ r <= rg.max_row
                                 /\ rg.min_col <= c /\ c <= rg.max_col
                              THEN value ELSE grid[r][c]]]
         IN  UnmergeFrom(filled, ranges, i + 1)

\* unmerge_and_fill, for one sheet of the workbook
unmerge_and_fill(sheet) ==
    [title |-> sheet.title, grid |-> UnmergeFrom(sheet.grid, sheet.merged, 1), merged |-> <<>>]

HEADER_KEYWORDS == {
    "s.no", "s.no.", "sl.no", "date", "month", "year",
    "production", "dispatch", "received", "inspected", "accepted", "rejected",
    "qty", "quantity", "total", "percentage", "%", "defect",
    "batch", "lot", "item", "product", "code", "remarks", "result" }

\* a test that skips only the cells that are None
IsNoneCell(v) == IsNone(v)

\* cell is None or (isinstance(cell, str) and not cell.strip())
IsBlankCell(v) == IsNone(v) \/ (IsStr(v) /\ Strip(v.s) = "")

\* the contribution of one non-empty cell to the score
cell_score(v) ==
    LET cell_str == Strip(StrLower(ToStr(v)))
    IN  (IF \E keyword \in HEADER_KEYWORDS : Contains(cell_str, keyword) THEN 10 ELSE 0)
        + (IF IsStr(v) THEN 2 ELSE IF IsNum(v) THEN 0 - 1 ELSE 0)

\* score_row_as_header, as the fraction num / den (den > 0):
\* score / non_empty * min(non_empty, 10)
score_row_as_header(row) ==
    LET cells == { i \in 1..Len(row) : ~IsBlankCell(row[i]) }
        non_empty == Cardinality(cells)
        score == SumSeq([i \in 1..Len(row) |->
                            IF i \in cells THEN cell_score(row[i]) ELSE 0])
    IN  IF non_empty > 10 THEN [num |-> score * 10, den |-> non_empty]
        ELSE [num |-> score, den |-> 1]

\* a comparison that lets an equal score replace the candidate
ScoreAtLeast(a, b) == a.num * b.den >= b.num * a.den

ScoreGreater(a, b) == a.num * b.den > b.num * a.den

HEADER_SCAN_ROWS == 20

RECURSIVE FindHeaderFrom(_, _, _, _, _)
FindHeaderFrom(sheet, row_idx, last, best_score, best_row) ==
    IF row_idx > last THEN best_row
    ELSE LET score == score_row_as_header(sheet.grid[row_idx])
         IN  IF ScoreGreater(score, best_score)
             THEN FindHeaderFrom(sheet, row_idx + 1, last, score, row_idx)
             ELSE FindHeaderFrom(sheet, row_idx + 1, last, best_score, best_row)

\* find_header_row(sheet, max_rows=20)
find_header_row(sheet) ==
    FindHeaderFrom(sheet, 1, Min(HEADER_SCAN_ROWS, max_row(sheet)),
                   [num |-> 0, den |-> 1], 0)

\* Python truth value of a cell value: None, "" and 0 are false
Truthy(v) == (IsStr(v) /\ v.s # "") \/ (IsNum(v) /\ v.n # 0) \/ IsDate(v)

header_name(v, col) ==
    IF Truthy(v) THEN StrReplaceChar(StrUpper(Strip(ToStr(v))), "\n", " ")
    ELSE "COL_" \o IntToStr(col)

TRAILING_SCAN_ROWS == 10

RECURSIVE DropTrailing(_, _, _)
\* "Remove duplicate empty columns at the end"
DropTrailing(sheet, headers, header_row_idx) ==
    IF Len(headers) > 0 /\ StartsWith(headers[Len(headers)], "COL_")
    THEN LET col_idx == Len(headers)
             last == Min(header_row_idx + TRAILING_SCAN_ROWS, max_row(sheet) + 1) - 1
             has_data == \E row_idx \in (header_row_idx + 1)..last :
                             ~IsNone(cell_value(sheet, row_idx, col_idx))
         IN  IF ~has_data
             THEN DropTrailing(sheet, SubSeq(headers, 1, Len(headers) - 1), header_row_idx)
             ELSE headers
    ELSE headers

EXCEL_ERRORS == {"#DIV/0!", "#N/A", "#VALUE!", "#REF!", "#NAME?"}

clean_value(v) ==
    IF IsNone(v) THEN None
    ELSE IF IsStr(v)
         THEN LET stripped == Strip(v.s)
              IN  IF stripped \in EXCEL_ERRORS THEN None
                  ELSE IF stripped = "" THEN None
                  ELSE Str(stripped)
    ELSE v

RECURSIVE RowDict(_, _, _, _, _)
\* row_data[header] = clean_value(cell), header by header
RowDict(sheet, headers, row_idx, col_idx, row_data) ==
    IF col_idx > Len(headers) THEN row_data
    ELSE RowDict(sheet, headers, row_idx, col_idx + 1,
                 DictPut(row_data, headers[col_idx],
                         clean_value(cell_value(sheet, row_idx, col_idx))))

MAX_EMPTY_ROWS == 10

RECURSIVE ExtractRowsTight(_, _, _, _, _)
\* a loop that stops at the tenth blank row of a run
ExtractRowsTight(sheet, headers, row_idx, empty_row_count, data) ==
    IF row_idx > max_row(sheet) THEN data
    ELSE LET row_data == RowDict(sheet, headers, row_idx, 1, <<>>)
             has_value == \E col_idx \in 1..Len(headers) :
                              ~IsNone(clean_value(cell_value(sheet, row_idx, col_idx)))
         IN  IF has_value
             THEN ExtractRowsTight(sheet, headers, row_idx + 1, 0,
                                   Append(data, DictPut(row_data, "_source_row", Num(row_idx))))
             ELSE IF empty_row_count + 1 >= MAX_EMPTY_ROWS THEN data
             ELSE ExtractRowsTight(sheet, headers, row_idx + 1, empty_row_count + 1, data)

RECURSIVE ExtractRows(_, _, _, _, _)
ExtractRows(sheet, headers, row_idx, empty_row_count, data) ==
    IF row_idx > max_row(sheet) THEN data
    ELSE LET row_data == RowDict(sheet, headers, row_idx, 1, <<>>)
             has_value == \E col_idx \in 1..Len(headers) :
                              ~IsNone(clean_value(cell_value(sheet, row_idx, col_idx)))
         IN  IF has_value
             THEN ExtractRows(sheet, headers, row_idx + 1, 0,
                              Append(data, DictPut(row_data, "_source_row", Num(row_idx))))
             ELSE IF empty_row_count + 1 > MAX_EMPTY_ROWS THEN data
             ELSE ExtractRows(sheet, headers, row_idx + 1, empty_row_count + 1, data)

\* header_row_idx = find_header_row(sheet); if header_row_idx == 0: header_row_idx = 1
header_row_idx_of(sheet) ==
    LET found == find_header_row(sheet)
    IN  IF found = 0 THEN 1 ELSE found

\* parse_sheet: <<>> for None, else a one-element sequence holding the ParsedSheet
\* parse_sheet once the data rows are extracted
ParsedSheet(sheet, file_name, header_row_idx, headers, data) ==
    IF Len(data) = 0 THEN <<>>
    ELSE << [name |-> sheet.title,
             headers |-> headers,
             data |-> data,
             header_row |-> header_row_idx,
             file_name |-> file_name,
             row_count |-> Len(data)] >>

\* parse_sheet once the headers are known
parse_sheet_rows(sheet, file_name, header_row_idx, headers) ==
    ParsedSheet(sheet, file_name, header_row_idx, headers,
                ExtractRows(sheet, headers, header_row_idx + 1, 0, <<>>))

\* parse_sheet once the header row is found
parse_sheet_from(sheet, file_name, header_row_idx) ==
    parse_sheet_rows(sheet, file_name, header_row_idx,
        DropTrailing(sheet,
                     [col \in 1..max_column(sheet) |->
                         header_name(cell_value(sheet, header_row_idx, col), col)],
                     header_row_idx))

parse_sheet(sheet, file_name) ==
    IF max_row(sheet) < 2 THEN <<>>
    ELSE parse_sheet_from(sheet, file_name, header_row_idx_of(sheet))

SKIP_SHEETS == {"chart", "graph", "summary"}

RECURSIVE ParseSheetsFrom(_, _, _)
ParseSheetsFrom(worksheets, i, file_name) ==
    IF i > Len(worksheets) THEN <<>>
    ELSE LET sheet == unmerge_and_fill(worksheets[i])
             sheet_name_lower == StrLower(sheet.title)
         IN  (IF \E skip \in SKIP_SHEETS : Contains(sheet_name_lower, skip) THEN <<>>
              ELSE parse_sheet(sheet, file_name))
             \o ParseSheetsFrom(worksheets, i + 1, file_name)

\* parse_excel_file.  A file is [name, corrupt, sheets]; load_workbook raises
\* when the file is gone from the upload directory or is not a workbook.
ParseResult(file_name, file_type) ==
    [file_name |-> file_name, file_type |-> file_type,
     sheets |-> <<>>, errors |-> <<>>, success |-> FALSE]

\* parse_excel_file after the loop over the worksheets
parse_excel_sheets(base, sheets) ==
    IF Len(sheets) > 0
    THEN [base EXCEPT !.sheets = sheets, !.success = TRUE]
    ELSE [base EXCEPT !.errors = << <<"No valid data sheets found">> >>]

\* parse_excel_file after the file type is detected
parse_excel_typed(file, on_disk, base) ==
    IF ~on_disk
    THEN [base EXCEPT !.errors = << <<"Failed to parse file", "No such file or directory">> >>]
    ELSE IF file.corrupt
    THEN [base EXCEPT !.errors = << <<"Failed to parse file", "File is not a zip file">> >>]
    ELSE parse_excel_sheets(base, ParseSheetsFrom(file.sheets, 1, file.name))

parse_excel_file(file, on_disk) ==
    parse_excel_typed(file, on_disk, ParseResult(file.name, detect_file_type(file.name)))

\* FileType, in the order the enum declares its members
FileTypeOrder == <<"production_cumulative", "cumulative", "assembly", "visual",
                   "integrity", "shopfloor", "unknown">>

\* results = {ft: [] for ft in FileType}
EmptyResults == [i \in 1..Len(FileTypeOrder) |-> [k |-> FileTypeOrder[i], v |-> <<>>]]

\* a loop that keeps only the files that parsed
AppendIfParsed(results, result) ==
    IF result.success
    THEN DictPut(results, result.file_type, Append(DictGet(results, result.file_type, <<>>), result))
    ELSE results

\* results[result.file_type].append(result)
AppendResult(results, result) ==
    DictPut(results, result.file_type, Append(DictGet(results, result.file_type, <<>>), result))

-----------------------------------------------------------------------------
(* Validation: src/backend/app/pipelines/validator.py *)

DataSource(file_name, sheet_name, row, column) ==
    [file_name |-> file_name, sheet_name |-> sheet_name,
     row_numbers |-> <<row>>, column_name |-> column]

NewValidationResult ==
    [valid |-> TRUE, errors |-> <<>>, warnings |-> <<>>,
     total_rows |-> 0, valid_rows |-> 0, error_rows |-> 0]

\* Messages are tuples: the fixed text and the values formatted into it.
add_error(result, message, file_name, sheet_name, row, column) ==
    [result EXCEPT
        !.errors = Append(@, [message |-> message, severity |-> "error",
                              source |-> DataSource(file_name, sheet_name, row, column)]),
        !.valid = FALSE,
        !.error_rows = @ + 1]

\* a warning recorded the way an error is
add_warning_as_error(result, message, file_name, sheet_name, row, column) ==
    [result EXCEPT
        !.warnings = Append(@, [message |-> message, severity |-> "warning",
                                source |-> DataSource(file_name, sheet_name, row, column)]),
        !.valid = FALSE,
        !.error_rows = @ + 1]

add_warning(result, message, file_name, sheet_name, row, column) ==
    [result EXCEPT
        !.warnings = Append(@, [message |-> message, severity |-> "warning",
                                source |-> DataSource(file_name, sheet_name, row, column)])]

RECURSIVE FindColumnFrom(_, _, _)
\* for key in row: for pattern in patterns: if pattern.upper() in key.upper()
FindColumnFrom(row, patterns, i) ==
    IF i > Len(row) THEN [key |-> "", found |-> FALSE, value |-> None]
    ELSE LET key_upper == StrUpper(row[i].k)
         IN  IF \E j \in 1..Len(patterns) : Contains(key_upper, StrUpper(patterns[j]))
             THEN [key |-> row[i].k, found |-> TRUE, value |-> row[i].v]
             ELSE FindColumnFrom(row, patterns, i + 1)

find_column(row, patterns) == FindColumnFrom(row, patterns, 1)

\* get_numeric: [ok |-> FALSE] is None
get_numeric(v) ==
    IF IsNone(v) THEN NoFloat
    ELSE IF IsNum(v) THEN Float(v.n)
    ELSE ParseFloat(Strip(StrRemoveChar(v.s, ",")))

source_row(row) == DictGet(row, "_source_row", Num(0)).n

\* the rule with "at least as large" in the place of "exceeds"
validate_production_row_ge(row, sheet, result) ==
    LET row_num == source_row(row)
        prod_num == get_numeric(find_column(row, <<"PRODUCTION", "PRODUCED", "PROD QTY">>).value)
        rej_num == get_numeric(find_column(row, <<"REJECTION", "REJECTED", "TOTAL REJ", "REJ QTY">>).value)
        r1 == IF prod_num.ok /\ rej_num.ok /\ FloatGe(rej_num, prod_num)
              THEN add_error(result, <<"Rejection exceeds production", rej_num.n, prod_num.n>>,
                             sheet.file_name, sheet.name, row_num, "REJECTION")
              ELSE result
        r2 == IF prod_num.ok /\ FloatLt(prod_num, Float(0))
              THEN add_warning(r1, <<"Negative production value", prod_num.n>>,
                               sheet.file_name, sheet.name, row_num, "PRODUCTION")
              ELSE r1
    IN  IF rej_num.ok /\ FloatLt(rej_num, Float(0))
        THEN add_warning(r2, <<"Negative rejection value", rej_num.n>>,
                         sheet.file_name, sheet.name, row_num, "REJECTION")
        ELSE r2

validate_production_row(row, sheet, result) ==
    LET row_num == source_row(row)
        prod_num == get_numeric(find_column(row, <<"PRODUCTION", "PRODUCED", "PROD QTY">>).value)
        rej_num == get_numeric(find_column(row, <<"REJECTION", "REJECTED", "TOTAL REJ", "REJ QTY">>).value)
        r1 == IF prod_num.ok /\ rej_num.ok /\ FloatGt(rej_num, prod_num)
              THEN add_error(result, <<"Rejection exceeds production", rej_num.n, prod_num.n>>,
                             sheet.file_name, sheet.name, row_num, "REJECTION")
              ELSE result
        r2 == IF prod_num.ok /\ FloatLt(prod_num, Float(0))
              THEN add_warning(r1, <<"Negative production value", prod_num.n>>,
                               sheet.file_name, sheet.name, row_num, "PRODUCTION")
              ELSE r1
    IN  IF rej_num.ok /\ FloatLt(rej_num, Float(0))
        THEN add_warning(r2, <<"Negative rejection value", rej_num.n>>,
                         sheet.file_name, sheet.name, row_num, "REJECTION")
        ELSE r2

\* the rule with the tolerance one unit too tight
validate_inspection_row_tight(row, sheet, result) ==
    LET row_num == source_row(row)
        received_num == get_numeric(find_column(row, <<"RECEIVED", "REC QTY", "INPUT">>).value)
        inspected_num == get_numeric(find_column(row, <<"INSPECTED", "INSP QTY", "CHECKED">>).value)
        accepted_num == get_numeric(find_column(row, <<"ACCEPTED", "ACC QTY", "PASSED">>).value)
        rejected_num == get_numeric(find_column(row, <<"REJECTED", "REJ QTY", "FAILED">>).value)
        r1 == IF /\ accepted_num.ok /\ rejected_num.ok /\ inspected_num.ok
                 /\ FloatGe(FloatAbs(FloatSub(FloatAdd(accepted_num, rejected_num),
                                               inspected_num)), Float(1))
              THEN add_warning(result,
                               <<"Accepted + Rejected doesn't match Inspected",
                                 accepted_num.n, rejected_num.n, inspected_num.n>>,
                               sheet.file_name, sheet.name, row_num, "")
              ELSE result
    IN  IF rejected_num.ok /\ received_num.ok /\ FloatGt(rejected_num, received_num)
        THEN add_error(r1, <<"Rejected exceeds received", rejected_num.n, received_num.n>>,
                       sheet.file_name, sheet.name, row_num, "REJECTED")
        ELSE r1

validate_inspection_row(row, sheet, result) ==
    LET row_num == source_row(row)
        received_num == get_numeric(find_column(row, <<"RECEIVED", "REC QTY", "INPUT">>).value)
        inspected_num == get_numeric(find_column(row, <<"INSPECTED", "INSP QTY", "CHECKED">>).value)
        accepted_num == get_numeric(find_column(row, <<"ACCEPTED", "ACC QTY", "PASSED">>).value)
        rejected_num == get_numeric(find_column(row, <<"REJECTED", "REJ QTY", "FAILED">>).value)
        r1 == IF /\ accepted_num.ok /\ rejected_num.ok /\ inspected_num.ok
                 /\ FloatGt(FloatAbs(FloatSub(FloatAdd(accepted_num, rejected_num),
                                               inspected_num)), Float(1))
              THEN add_warning(result,
                               <<"Accepted + Rejected doesn't match Inspected",
                                 accepted_num.n, rejected_num.n, inspected_num.n>>,
                               sheet.file_name, sheet.name, row_num, "")
              ELSE result
    IN  IF rejected_num.ok /\ received_num.ok /\ FloatGt(rejected_num, received_num)
        THEN add_error(r1, <<"Rejected exceeds received", rejected_num.n, received_num.n>>,
                       sheet.file_name, sheet.name, row_num, "REJECTED")
        ELSE r1

RECURSIVE ValidateDefectFrom(_, _, _, _)
ValidateDefectFrom(row, sheet, i, result) ==
    IF i > Len(row) THEN result
    ELSE IF StartsWith(row[i].k, "_") THEN ValidateDefectFrom(row, sheet, i + 1, result)
    ELSE LET num == get_numeric(row[i].v)
         IN  ValidateDefectFrom(row, sheet, i + 1,
                 IF num.ok /\ FloatLt(num, Float(0))
                 THEN add_warning(result, <<"Negative defect count", num.n>>,
                                  sheet.file_name, sheet.name, source_row(row), row[i].k)
                 ELSE result)

validate_defect_row(row, sheet, result) == ValidateDefectFrom(row, sheet, 1, result)

PRODUCTION_TYPES == {"production_cumulative", "cumulative"}
INSPECTION_TYPES == {"assembly", "visual", "integrity", "shopfloor"}

\* the body of "for row in sheet.data"
validate_row(file_type, row, sheet, result) ==
    IF file_type \in PRODUCTION_TYPES THEN validate_production_row(row, sheet, result)
    ELSE IF file_type \in INSPECTION_TYPES
         THEN validate_defect_row(row, sheet, validate_inspection_row(row, sheet, result))
    ELSE result

RECURSIVE ValidateRows(_, _, _, _)
ValidateRows(file_type, sheet, i, result) ==
    IF i > Len(sheet.data) THEN result
    ELSE LET next == validate_row(file_type, sheet.data[i], sheet, result)
         IN  \* the test makes TLC evaluate this row's result before the next row is taken
             IF next.error_rows < 0 THEN next
             ELSE ValidateRows(file_type, sheet, i + 1, next)

RECURSIVE ValidateSheets(_, _, _, _)
ValidateSheets(file_type, sheets, i, result) ==
    IF i > Len(sheets) THEN result
    ELSE ValidateSheets(file_type, sheets, i + 1,
            ValidateRows(file_type, sheets[i], 1,
                         [result EXCEPT !.total_rows = @ + sheets[i].row_count]))

RECURSIVE AddParseErrors(_, _, _)
AddParseErrors(parse_result, i, result) ==
    IF i > Len(parse_result.errors) THEN result
    ELSE AddParseErrors(parse_result, i + 1,
            add_error(result, parse_result.errors[i], parse_result.file_name, "N/A", 0, ""))

RECURSIVE ValidateResults(_, _, _, _)
ValidateResults(file_type, parse_results, i, result) ==
    IF i > Len(parse_results) THEN result
    ELSE ValidateResults(file_type, parse_results, i + 1,
            IF ~parse_results[i].success
            THEN AddParseErrors(parse_results[i], 1, result)
            ELSE ValidateSheets(file_type, parse_results[i].sheets, 1, result))

RECURSIVE ValidateTypes(_, _, _)
ValidateTypes(parsed_files, i, result) ==
    IF i > Len(parsed_files) THEN result
    ELSE ValidateTypes(parsed_files, i + 1,
            ValidateResults(parsed_files[i].k, parsed_files[i].v, 1, result))

validate_parsed_data(parsed_files) ==
    LET result == ValidateTypes(parsed_files, 1, NewValidationResult)
    IN  [result EXCEPT !.valid_rows = result.total_rows - result.error_rows]

-----------------------------------------------------------------------------
(* Dates *)

\* A calendar date is [y, m, d]; NoDate stands for None.
NoDate == [y |-> 0, m |-> 0, d |-> 0]
MkDate(y, m, d) == [y |-> y, m |-> m, d |-> d]

\* EXCEL_EPOCH = datetime(1899, 12, 30), as a number of days after 0000-03-01
\* in the proleptic Gregorian calendar
EXCEL_EPOCH_DAYS == 693899

\* the calendar date z days after 0000-03-01 (z >= 0)
CivilFromDays(z) ==
    LET era == z \div 146097
        doe == z - era * 146097
        yoe == (doe - doe \div 1460 + doe \div 36524 - doe \div 146096) \div 365
        doy == doe - (365 * yoe + yoe \div 4 - yoe \div 100)
        mp == (5 * doy + 2) \div 153
        d == doy - (153 * mp + 2) \div 5 + 1
        m == IF mp < 10 THEN mp + 3 ELSE mp - 9
        y == yoe + era * 400 + (IF m <= 2 THEN 1 ELSE 0)
    IN  MkDate(y, m, d)

\* pd.Timedelta holds at most 106751 whole days; beyond it the constructor raises
MAX_TIMEDELTA_DAYS == 106751

\* excel_serial_to_date for an int: None below 1 and when Timedelta overflows
excel_serial_to_date(serial) ==
    IF serial < 1 THEN NoDate
    ELSE IF serial > MAX_TIMEDELTA_DAYS THEN NoDate
    ELSE CivilFromDays(EXCEL_EPOCH_DAYS + serial)

\* d.strftime("%Y-%m")
strftime_ym(d) == Pad4(d.y) \o "-" \o Pad2(d.m)

MONTH_NAMES == <<"january", "february", "march", "april", "may", "june", "july",
                 "august", "september", "october", "november", "december">>

\* %m of strptime: 1[0-2] | 0[1-9] | [1-9], the whole of s
ParseMonthNumber(s) ==
    IF AllDigits(s) /\ Len(s) \in {1, 2} /\ DigitsToNat(s, 0) \in 1..12
    THEN DigitsToNat(s, 0) ELSE 0

\* %Y of strptime: exactly four digits, and a year datetime accepts (>= 1)
ParseYear(s) ==
    IF AllDigits(s) /\ Len(s) = 4 THEN DigitsToNat(s, 0) ELSE 0

\* strptime(s, "<name> %Y") for the month names given (matching ignores case;
\* the blank of the format stands for any run of white space, also none)
ParseNameYear(s, names) ==
    LET low == StrLower(s)
        hits == { i \in 1..12 :
                    /\ StartsWith(low, names[i])
                    /\ ParseYear(LStrip(SubSeq(low, Len(names[i]) + 1, Len(low)))) > 0 }
    IN  IF hits = {} THEN [ok |-> FALSE, y |-> 0, m |-> 0]
        ELSE LET i == CHOOSE i \in hits : TRUE
             IN  [ok |-> TRUE, m |-> i,
                  y |-> ParseYear(LStrip(SubSeq(low, Len(names[i]) + 1, Len(low))))]

MONTH_ABBRS == [i \in 1..12 |-> SubSeq(MONTH_NAMES[i], 1, 3)]

\* strptime(s, "%Y-%m") and strptime(s, "%m/%Y")
ParseYearDashMonth(s) ==
    IF Len(s) >= 6 /\ CharAt(s, 5) = "-"
       /\ ParseYear(SubSeq(s, 1, 4)) > 0 /\ ParseMonthNumber(SubSeq(s, 6, Len(s))) > 0
    THEN [ok |-> TRUE, y |-> ParseYear(SubSeq(s, 1, 4)), m |-> ParseMonthNumber(SubSeq(s, 6, Len(s)))]
    ELSE [ok |-> FALSE, y |-> 0, m |-> 0]

ParseMonthSlashYear(s) ==
    LET cut == IF Len(s) >= 2 /\ CharAt(s, 2) = "/" THEN 2
               ELSE IF Len(s) >= 3 /\ CharAt(s, 3) = "/" THEN 3 ELSE 0
    IN  IF cut > 0 /\ ParseMonthNumber(SubSeq(s, 1, cut - 1)) > 0
           /\ ParseYear(SubSeq(s, cut + 1, Len(s))) > 0
        THEN [ok |-> TRUE, m |-> ParseMonthNumber(SubSeq(s, 1, cut - 1)),
              y |-> ParseYear(SubSeq(s, cut + 1, Len(s)))]
        ELSE [ok |-> FALSE, y |-> 0, m |-> 0]

\* the date a native date cell holds
date_of(v) == MkDate(v.n \div 10000, (v.n \div 100) % 100, v.n % 100)

IsLeap(y) == y % 4 = 0 /\ (y % 100 # 0 \/ y % 400 = 0)
DaysInMonth(y, m) ==
    IF m = 2 THEN (IF IsLeap(y) THEN 29 ELSE 28)
    ELSE IF m \in {4, 6, 9, 11} THEN 30 ELSE 31

\* the positions of sep in s
SepPositions(s, sep) == { i \in 1..Len(s) : CharAt(s, i) = sep }

\* %d of strptime: one or two digits, 1..31
ParseDayNumber(s) ==
    IF AllDigits(s) /\ Len(s) \in {1, 2} /\ DigitsToNat(s, 0) \in 1..31
    THEN DigitsToNat(s, 0) ELSE 0

\* strptime(s, "%Y-%m-%d") when year_first, else strptime(s, "%d<sep>%m<sep>%Y");
\* a day the month does not have is a ValueError
ParseThreeFields(s, sep, year_first) ==
    LET at == SepPositions(s, sep)
        bad == [ok |-> FALSE, y |-> 0, m |-> 0, d |-> 0]
    IN  IF Cardinality(at) # 2 THEN bad
        ELSE LET p1 == CHOOSE i \in at : \A j \in at : i <= j
                 p2 == CHOOSE i \in at : \A j \in at : i >= j
                 f1 == SubSeq(s, 1, p1 - 1)
                 f2 == SubSeq(s, p1 + 1, p2 - 1)
                 f3 == SubSeq(s, p2 + 1, Len(s))
                 y == ParseYear(IF year_first THEN f1 ELSE f3)
                 m == ParseMonthNumber(f2)
                 d == ParseDayNumber(IF year_first THEN f3 ELSE f1)
             IN  IF y > 0 /\ m > 0 /\ d > 0 /\ d <= DaysInMonth(y, m)
                 THEN [ok |-> TRUE, y |-> y, m |-> m, d |-> d]
                 ELSE bad

\* excel_serial_to_date for any cell value: None (NoDate) for a missing value,
\* a native date as it is, a string through the five formats in their order,
\* a number as a serial
excel_serial_to_date_value(value) ==
    IF IsNone(value) THEN NoDate
    ELSE IF IsDate(value) THEN date_of(value)
    ELSE IF IsStr(value)
         THEN LET t == Strip(value.s)
                  f1 == ParseThreeFields(t, "-", TRUE)
                  f2 == ParseThreeFields(t, "-", FALSE)
                  f3 == ParseThreeFields(t, "/", FALSE)
                  f4 == ParseNameYear(t, MONTH_NAMES)
                  f5 == ParseNameYear(t, MONTH_ABBRS)
              IN  IF f1.ok THEN MkDate(f1.y, f1.m, f1.d)
                  ELSE IF f2.ok THEN MkDate(f2.y, f2.m, f2.d)
                  ELSE IF f3.ok THEN MkDate(f3.y, f3.m, f3.d)
                  ELSE IF f4.ok THEN MkDate(f4.y, f4.m, 1)
                  ELSE IF f5.ok THEN MkDate(f5.y, f5.m, 1)
                  ELSE NoDate
    ELSE excel_serial_to_date(value.n)

\* datetime.strptime(month + "-15", "%Y-%m-%d").date(), `today` on ValueError
month_key_date(month, day, today) ==
    LET ym == ParseYearDashMonth(month)
    IN  IF ym.ok THEN MkDate(ym.y, ym.m, day) ELSE today

\* Python's < on strings, for the characters month keys are made of
AsciiOrder == " #%&-./0123456789:ABCDEFGHIJKLMNOPQRSTUVWXYZ_abcdefghijklmnopqrstuvwxyz"
CharRank(c) ==
    IF \E i \in 1..Len(AsciiOrder) : CharAt(AsciiOrder, i) = c
    THEN CHOOSE i \in 1..Len(AsciiOrder) : CharAt(AsciiOrder, i) = c
    ELSE 0

RECURSIVE StrLess(_, _)
StrLess(a, b) ==
    IF b = "" THEN FALSE
    ELSE IF a = "" THEN TRUE
    ELSE IF CharAt(a, 1) = CharAt(b, 1)
         THEN StrLess(SubSeq(a, 2, Len(a)), SubSeq(b, 2, Len(b)))
         ELSE CharRank(CharAt(a, 1)) < CharRank(CharAt(b, 1))

RECURSIVE SortedStrings(_)
\* sorted(S) for a set of strings
SortedStrings(S) ==
    IF S = {} THEN <<>>
    ELSE LET least == CHOOSE x \in S : \A y \in S : x = y \/ StrLess(x, y)
         IN  <<least>> \o SortedStrings(S \ {least})

SeqToSet(q) == { q[i] : i \in 1..Len(q) }

-----------------------------------------------------------------------------
(* Aggregation: src/backend/app/pipelines/computation.py *)

find_column_value(row, patterns) == FindColumnFrom(row, patterns, 1)

\* safe_numeric: abs(float(value)), 0 for None and for a string float() rejects
safe_numeric(v) ==
    IF IsNone(v) THEN Float(0)
    ELSE IF IsNum(v) THEN Float(Abs(v.n))
    ELSE LET f == ParseFloat(Strip(StrRemoveChar(v.s, ",")))
         IN  IF f.ok THEN FloatAbs(f) ELSE Float(0)

\* get_month_key: "" stands for None
get_month_key(row) ==
    LET value == find_column_value(row, <<"MONTH", "DATE", "PERIOD">>).value
    IN  IF IsNone(value) THEN ""
        ELSE IF IsNum(value)
             THEN LET d == excel_serial_to_date(value.n)
                  IN  IF d # NoDate THEN strftime_ym(d) ELSE ""
        ELSE IF IsDate(value) THEN strftime_ym(date_of(value))
        ELSE LET t == Strip(value.s)
                 f1 == ParseNameYear(t, MONTH_NAMES)
                 f2 == ParseNameYear(t, MONTH_ABBRS)
                 f3 == ParseYearDashMonth(t)
                 f4 == ParseMonthSlashYear(t)
             IN  IF f1.ok THEN strftime_ym(MkDate(f1.y, f1.m, 1))
                 ELSE IF f2.ok THEN strftime_ym(MkDate(f2.y, f2.m, 1))
                 ELSE IF f3.ok THEN strftime_ym(MkDate(f3.y, f3.m, 1))
                 ELSE IF f4.ok THEN strftime_ym(MkDate(f4.y, f4.m, 1))
                 ELSE ""

COST_PER_REJECTED_UNIT == 365

\* The accumulators hold sums of floats.  A sum that is nan is listed in `nan`
\* by its place, <<accumulator, key, month, field>>; the number kept for it in
\* the accumulator then means nothing.
NewAggregator ==
    [production |-> <<>>, stages |-> <<>>, defects |-> <<>>, sources |-> <<>>, nan |-> {}]

\* the places among `fields` whose addend is nan: x + nan is nan
NanPlaces(accumulator, key, month, fields) ==
    { <<accumulator, key, month, name>> : name \in { f \in DOMAIN fields : fields[f].nan } }

NoProduction == [produced |-> 0, dispatched |-> 0]
NoStageData == [inspected |-> 0, accepted |-> 0, rejected |-> 0, received |-> 0]

add_production(agg, month, produced, dispatched, source) ==
    LET old == DictGet(agg.production, month, NoProduction)
    IN  [agg EXCEPT
            !.production = DictPut(@, month, [produced |-> old.produced + produced.n,
                                              dispatched |-> old.dispatched + dispatched.n]),
            !.nan = @ \cup NanPlaces("production", "", month,
                                     [produced |-> produced, dispatched |-> dispatched]),
            !.sources = Append(@, source)]

add_stage_data(agg, stage_code, month, inspected, accepted, rejected, received, source) ==
    LET months == DictGet(agg.stages, stage_code, <<>>)
        old == DictGet(months, month, NoStageData)
    IN  [agg EXCEPT
            !.stages = DictPut(@, stage_code,
                          DictPut(months, month,
                                  [inspected |-> old.inspected + inspected.n,
                                   accepted |-> old.accepted + accepted.n,
                                   rejected |-> old.rejected + rejected.n,
                                   received |-> old.received + received.n])),
            !.nan = @ \cup NanPlaces("stages", stage_code, month,
                                     [inspected |-> inspected, accepted |-> accepted,
                                      rejected |-> rejected, received |-> received]),
            !.sources = Append(@, source)]

add_defect(agg, defect_code, month, count, source) ==
    LET months == DictGet(agg.defects, defect_code, <<>>)
    IN  [agg EXCEPT
            !.defects = DictPut(@, defect_code,
                           DictPut(months, month, DictGet(months, month, 0) + count.n)),
            !.nan = @ \cup NanPlaces("defects", defect_code, month, [count |-> count]),
            !.sources = Append(@, source)]

STAGE_MAPPING == [shopfloor |-> "SHOPFLOOR", assembly |-> "ASSEMBLY",
                  visual |-> "VISUAL", integrity |-> "INTEGRITY"]

stage_code_of(file_type) ==
    IF file_type \in DOMAIN STAGE_MAPPING THEN STAGE_MAPPING[file_type] ELSE "UNKNOWN"

DEFECT_PATTERNS == <<
    "COAG", "RAISED WIRE", "SURFACE", "OVERLAPING", "BLACK MARK", "WEBBING",
    "MISSING", "LEAKAGE", "BUBBLE", "THIN", "DIRTY", "STICKY", "WEAK",
    "WRONG COLOR", "PIN HOLE", "STRIPPING", "BALLOON", "VALVE", "OTHER" >>

\* the body of "for row in sheet.data" in extract_from_production
fold_production_row(agg, sheet, row) ==
    LET month == get_month_key(row)
    IN  IF month = "" THEN agg
        ELSE add_production(agg, month,
                 safe_numeric(find_column_value(row, <<"PRODUCTION", "PRODUCED", "PROD QTY">>).value),
                 safe_numeric(find_column_value(row, <<"DISPATCH", "DISPATCHED">>).value),
                 DataSource(sheet.file_name, sheet.name, source_row(row), ""))

IsUpperLetter(c) == c \in UpperLetterSet

RECURSIVE SkipWhile(_, _, _)
\* the first position >= p of s whose character is not in the class
SkipWhile(s, p, class) ==
    IF p > Len(s) THEN p
    ELSE IF (class = "letters" /\ IsUpperLetter(CharAt(s, p)))
            \/ (class = "spaces" /\ IsSpace(CharAt(s, p)))
            \/ (class = "digits" /\ IsDigit(CharAt(s, p)))
         THEN SkipWhile(s, p + 1, class)
         ELSE p

\* re.search(r"(JAN|...|DEC)[A-Z]*\s*(\d{2,4})", name) at position p:
\* [month index, year text], or month 0 when the pattern does not match there
SheetMonthAt(name, p) ==
    LET abbr == StrLower(SubSeq(name, p, p + 2))
        after == SkipWhile(name, SkipWhile(name, p + 3, "letters"), "spaces")
        digits_end == Min(SkipWhile(name, after, "digits"), after + 4)
    IN  IF p + 2 <= Len(name) /\ (\E i \in 1..12 : MONTH_ABBRS[i] = abbr)
           /\ digits_end - after >= 2
        THEN [m |-> CHOOSE i \in 1..12 : MONTH_ABBRS[i] = abbr,
              year |-> SubSeq(name, after, digits_end - 1)]
        ELSE [m |-> 0, year |-> ""]

\* sheet_month of extract_from_inspection: "" stands for None
sheet_month_of(sheet_name) ==
    LET name == StrUpper(sheet_name)
        hits == { p \in 1..Len(name) : SheetMonthAt(name, p).m > 0 }
    IN  IF hits = {} THEN ""
        ELSE LET first == CHOOSE p \in hits : \A q \in hits : p <= q
                 hit == SheetMonthAt(name, first)
                 year == IF Len(hit.year) = 2 THEN "20" \o hit.year ELSE hit.year
             IN  year \o "-" \o Pad2(hit.m)

FALLBACK_MONTH == "2025-04"

RECURSIVE FoldDefects(_, _, _, _, _)
\* "for key, value in row.items()": the first DEFECT_PATTERNS entry the key holds
FoldDefects(agg, sheet, row, month, i) ==
    IF i > Len(row) THEN agg
    ELSE IF StartsWith(row[i].k, "_") THEN FoldDefects(agg, sheet, row, month, i + 1)
    ELSE LET key_upper == StrUpper(row[i].k)
             hits == { j \in 1..Len(DEFECT_PATTERNS) : Contains(key_upper, DEFECT_PATTERNS[j]) }
             count == safe_numeric(row[i].v)
         IN  IF hits # {} /\ FloatGt(count, Float(0))
             THEN FoldDefects(
                      add_defect(agg,
                                 DEFECT_PATTERNS[CHOOSE j \in hits : \A h \in hits : j <= h],
                                 month, count,
                                 DataSource(sheet.file_name, sheet.name, source_row(row), row[i].k)),
                      sheet, row, month, i + 1)
             ELSE FoldDefects(agg, sheet, row, month, i + 1)

\* the body of "for row in sheet.data" in extract_from_inspection
fold_inspection_row(agg, stage_code, sheet, row) ==
    LET own == get_month_key(row)
        sheet_month == sheet_month_of(sheet.name)
        month == IF own # "" THEN own ELSE IF sheet_month # "" THEN sheet_month ELSE FALLBACK_MONTH
        staged == add_stage_data(agg, stage_code, month,
                     safe_numeric(find_column_value(row, <<"INSPECTED", "INSP", "CHECKED", "TOTAL">>).value),
                     safe_numeric(find_column_value(row, <<"ACCEPTED", "ACC", "PASSED", "OK">>).value),
                     safe_numeric(find_column_value(row, <<"REJECTED", "REJ", "FAILED", "NG">>).value),
                     safe_numeric(find_column_value(row, <<"RECEIVED", "REC", "INPUT">>).value),
                     DataSource(sheet.file_name, sheet.name, source_row(row), ""))
    IN  FoldDefects(staged, sheet, row, month, 1)

\* The rows compute_statistics folds, in the order its loops visit them.
PRODUCTION_ORDER == <<"production_cumulative", "cumulative">>
INSPECTION_ORDER == <<"shopfloor", "assembly", "visual", "integrity">>

RECURSIVE RowsOfSheets(_, _, _)
RowsOfSheets(file_type, sheets, i) ==
    IF i > Len(sheets) THEN <<>>
    ELSE [j \in 1..Len(sheets[i].data) |->
             [file_type |-> file_type,
              sheet |-> [file_name |-> sheets[i].file_name, name |-> sheets[i].name],
              row |-> sheets[i].data[j]]]
         \o RowsOfSheets(file_type, sheets, i + 1)

RECURSIVE RowsOfResults(_, _, _)
RowsOfResults(file_type, results, i) ==
    IF i > Len(results) THEN <<>>
    ELSE RowsOfSheets(file_type, results[i].sheets, 1) \o RowsOfResults(file_type, results, i + 1)

RECURSIVE RowsOfTypes(_, _, _)
RowsOfTypes(parsed_files, order, i) ==
    IF i > Len(order) THEN <<>>
    ELSE (IF DictHas(parsed_files, order[i])
          THEN RowsOfResults(order[i], DictGet(parsed_files, order[i], <<>>), 1)
          ELSE <<>>)
         \o RowsOfTypes(parsed_files, order, i + 1)

fold_order(parsed_files) ==
    RowsOfTypes(parsed_files, PRODUCTION_ORDER, 1) \o RowsOfTypes(parsed_files, INSPECTION_ORDER, 1)

\* one iteration of the row loops of extract_from_production / extract_from_inspection
fold_row(agg, item) ==
    IF item.file_type \in PRODUCTION_TYPES
    THEN fold_production_row(agg, item.sheet, item.row)
    ELSE fold_inspection_row(agg, stage_code_of(item.file_type), item.sheet, item.row)

RECURSIVE FoldFrom(_, _, _)
\* the extraction loops of compute_statistics run to the end
FoldFrom(agg, items, i) ==
    IF i > Len(items) THEN agg
    ELSE LET next == fold_row(agg, items[i])
         IN  \* the test makes TLC evaluate this row's fold before the next row is taken
             IF Len(next.sources) < 0 THEN next
             ELSE FoldFrom(next, items, i + 1)

-----------------------------------------------------------------------------
(* KPI computation: src/backend/app/pipelines/computation.py                *)
(* The rates that are rounded are exact fractions [num, den], and a rounded  *)
(* value round(x, 2) is the integer number of hundredths. The rates that the *)
(* trend compares with 0.5 are doubles, computed as the float operations     *)
(* compute them.                                                             *)

RoundDiv(n, d) ==
    LET q == n \div d
        r == n % d
    IN  IF 2 * r > d THEN q + 1 ELSE IF 2 * r = d THEN q + (q % 2) ELSE q

\* round(num / den, 2) in hundredths, den > 0
Round2(num, den) ==
    IF num >= 0 THEN RoundDiv(num * 100, den) ELSE 0 - RoundDiv((0 - num) * 100, den)

\* (rejected / produced * 100) if produced > 0 else 0
rate_of(rejected, produced) ==
    IF produced > 0 THEN [num |-> rejected * 100, den |-> produced] ELSE [num |-> 0, den |-> 1]

FracSub(a, b) == [num |-> a.num * b.den - b.num * a.den, den |-> a.den * b.den]

\* sum(stage_months.get(month, {}).get("rejected", 0) for stage_months in stages.values())
rejected_in_month(agg, month) ==
    SumSeq([i \in 1..Len(agg.stages) |-> DictGet(agg.stages[i].v, month, NoStageData).rejected])

total_rejected_of(agg) ==
    SumSeq([i \in 1..Len(agg.stages) |->
               SumSeq([j \in 1..Len(agg.stages[i].v) |-> agg.stages[i].v[j].v.rejected])])

\* IEEE-754 binary64 values of the rate arithmetic: bits is the 53-bit significand,
\* most significant bit first, and the value is (-1)^neg * bits * 2^exp; zero has no bits
MANTISSA_BITS == 53

DblZero == [neg |-> FALSE, bits |-> <<>>, exp |-> 0]

RECURSIVE BinaryOf(_)
\* the binary digits of a natural number, without leading zeros
BinaryOf(k) == IF k = 0 THEN <<>> ELSE Append(BinaryOf(k \div 2), k % 2)

RECURSIVE TrimLeading(_)
TrimLeading(bits) ==
    IF bits # <<>> /\ bits[1] = 0 THEN TrimLeading(Tail(bits)) ELSE bits

Zeros(k) == [i \in 1..k |-> 0]

\* bits + 1: the last 0 becomes 1 and the 1s after it become 0
Increment(bits) ==
    IF \A i \in 1..Len(bits) : bits[i] = 1 THEN <<1>> \o Zeros(Len(bits))
    ELSE [i \in 1..Len(bits) |->
             IF \E j \in (i + 1)..Len(bits) : bits[j] = 0 THEN bits[i]
             ELSE 1 - bits[i]]

\* the nearest double to (-1)^neg * (bits + fraction) * 2^exp, ties to even, where
\* bits has no leading zero and sticky says that a fraction below the last bit remains
RoundToDouble(neg, bits, exp, sticky) ==
    IF bits = <<>> THEN DblZero
    ELSE IF Len(bits) <= MANTISSA_BITS
    THEN [neg |-> neg, bits |-> bits \o Zeros(MANTISSA_BITS - Len(bits)),
          exp |-> exp - (MANTISSA_BITS - Len(bits))]
    ELSE LET kept == SubSeq(bits, 1, MANTISSA_BITS)
             guard == bits[MANTISSA_BITS + 1]
             rest == sticky \/ \E i \in (MANTISSA_BITS + 2)..Len(bits) : bits[i] = 1
             up == guard = 1 /\ (rest \/ kept[MANTISSA_BITS] = 1)
             rounded == IF up THEN Increment(kept) ELSE kept
         IN  [neg |-> neg, bits |-> SubSeq(rounded, 1, MANTISSA_BITS),
              exp |-> exp + (Len(bits) - MANTISSA_BITS) + (Len(rounded) - MANTISSA_BITS)]

RECURSIVE DivideFrom(_, _, _, _)
\* long division: the quotient so far is bits * 2^exp and rem / divisor * 2^exp remains
DivideFrom(rem, divisor, bits, exp) ==
    IF rem = 0 \/ Len(bits) > MANTISSA_BITS
    THEN RoundToDouble(FALSE, bits, exp, rem # 0)
    ELSE DivideFrom((2 * rem) % divisor, divisor,
                    TrimLeading(Append(bits, (2 * rem) \div divisor)), exp - 1)

\* float(a) / float(b) for naturals a and b > 0
DblDivide(a, b) == DivideFrom(a % b, b, BinaryOf(a \div b), 0)

RECURSIVE TimesFrom(_, _, _, _, _)
\* the digits of bits[1..i] * k + carry, followed by the digits already produced
TimesFrom(bits, k, i, carry, low) ==
    \* the second test makes TLC evaluate the carry before the next digit is taken
    IF i = 0 \/ carry < 0 THEN BinaryOf(carry) \o low
    ELSE TimesFrom(bits, k, i - 1, (bits[i] * k + carry) \div 2,
                   <<(bits[i] * k + carry) % 2>> \o low)

\* x * k for a double x and a small natural k
DblTimes(x, k) ==
    RoundToDouble(x.neg, TrimLeading(TimesFrom(x.bits, k, Len(x.bits), 0, <<>>)), x.exp, FALSE)

RECURSIVE BitsLess(_, _, _)
\* a < b for digit sequences of equal length, from position i
BitsLess(a, b, i) ==
    IF i > Len(a) THEN FALSE
    ELSE IF a[i] # b[i] THEN a[i] < b[i]
    ELSE BitsLess(a, b, i + 1)

RECURSIVE MinusFrom(_, _, _, _, _)
\* the digits of a[1..i] - b[1..i] - borrow, followed by the digits already produced,
\* for digit sequences of equal length with a >= b
MinusFrom(a, b, i, borrow, low) ==
    \* the second test makes TLC evaluate the borrow before the next digit is taken
    IF i = 0 \/ borrow < 0 THEN low
    ELSE MinusFrom(a, b, i - 1, IF a[i] - b[i] - borrow < 0 THEN 1 ELSE 0,
                   <<(a[i] - b[i] - borrow + 2) % 2>> \o low)

\* the digits of x at the exponent exp <= x.exp, in a sequence of length width
AlignedBits(x, exp, width) ==
    Zeros(width - Len(x.bits) - (x.exp - exp)) \o x.bits \o Zeros(x.exp - exp)

DblSubtractAligned(a, b, exp, width) ==
    IF BitsLess(a, b, 1)
    THEN RoundToDouble(TRUE, TrimLeading(MinusFrom(b, a, width, 0, <<>>)), exp, FALSE)
    ELSE RoundToDouble(FALSE, TrimLeading(MinusFrom(a, b, width, 0, <<>>)), exp, FALSE)

\* x - y for doubles x, y >= 0
DblSubtract(x, y) ==
    IF y.bits = <<>> THEN x
    ELSE IF x.bits = <<>> THEN [y EXCEPT !.neg = TRUE]
    ELSE DblSubtractAligned(
             AlignedBits(x, Min(x.exp, y.exp), MANTISSA_BITS + Max(x.exp, y.exp) - Min(x.exp, y.exp)),
             AlignedBits(y, Min(x.exp, y.exp), MANTISSA_BITS + Max(x.exp, y.exp) - Min(x.exp, y.exp)),
             Min(x.exp, y.exp),
             MANTISSA_BITS + Max(x.exp, y.exp) - Min(x.exp, y.exp))

\* |x| > 0.5: 0.5 is the double with the significand 2^52 and the exponent -53
AboveHalf(x) ==
    /\ x.bits # <<>>
    /\ \/ x.exp > 0 - MANTISSA_BITS
       \/ x.exp = 0 - MANTISSA_BITS /\ \E i \in 2..MANTISSA_BITS : x.bits[i] = 1

\* x > 0.5
DblGtHalf(x) == ~x.neg /\ AboveHalf(x)
\* x < -0.5
DblLtMinusHalf(x) == x.neg /\ AboveHalf(x)

\* (rejected / produced * 100) if produced > 0 else 0, as a double
DblRate(rejected, produced) ==
    IF produced > 0 THEN DblTimes(DblDivide(rejected, produced), 100) ELSE DblZero

\* "up" if rate_change > 0.5 else ("down" if rate_change < -0.5 else "stable"),
\* with the bounds moved to where a change of exactly 0.5 is a trend
trend_of_inclusive(rate_change) ==
    IF DblGtHalf(rate_change) \/ (~rate_change.neg /\ rate_change = DblDivide(1, 2)) THEN "up"
    ELSE IF DblLtMinusHalf(rate_change)
            \/ (rate_change.neg /\ [rate_change EXCEPT !.neg = FALSE] = DblDivide(1, 2))
    THEN "down"
    ELSE "stable"

\* "up" if rate_change > 0.5 else ("down" if rate_change < -0.5 else "stable")
trend_of(rate_change) ==
    IF DblGtHalf(rate_change) THEN "up"
    ELSE IF DblLtMinusHalf(rate_change) THEN "down"
    ELSE "stable"

\* the rejection rate of one production month, as the trend computes it
month_rate(agg, month) ==
    DblRate(rejected_in_month(agg, month), DictGet(agg.production, month, NoProduction).produced)

sorted_production_months(agg) == SortedStrings(SeqToSet(DictKeys(agg.production)))

compute_kpis(agg, today) ==
    LET total_produced == SumSeq([i \in 1..Len(agg.production) |-> agg.production[i].v.produced])
        total_dispatched == SumSeq([i \in 1..Len(agg.production) |-> agg.production[i].v.dispatched])
        total_rejected == total_rejected_of(agg)
        rejection_rate == rate_of(total_rejected, total_produced)
        yield_rate == FracSub([num |-> 100, den |-> 1], rejection_rate)
        all_months == sorted_production_months(agg)
        n == Len(all_months)
        current_rate == rate_of(rejected_in_month(agg, all_months[n]),
                                DictGet(agg.production, all_months[n], NoProduction).produced)
        prev_rate == rate_of(rejected_in_month(agg, all_months[n - 1]),
                             DictGet(agg.production, all_months[n - 1], NoProduction).produced)
        rate_change == IF n >= 2 THEN FracSub(current_rate, prev_rate) ELSE [num |-> 0, den |-> 1]
        trend == IF n >= 2
                 THEN trend_of(DblSubtract(month_rate(agg, all_months[n]),
                                           month_rate(agg, all_months[n - 1])))
                 ELSE "stable"
        watch_count ==
            SumSeq([i \in 1..Len(agg.stages) |->
                Cardinality({ j \in 1..Len(agg.stages[i].v) :
                    /\ agg.stages[i].v[j].v.inspected > 0
                    /\ agg.stages[i].v[j].v.rejected * 100 > 10 * agg.stages[i].v[j].v.inspected })])
    IN  [rejection_rate |-> Round2(rejection_rate.num, rejection_rate.den),
         rejection_rate_change |-> Round2(rate_change.num, rate_change.den),
         rejection_trend |-> trend,
         yield_rate |-> Round2(yield_rate.num, yield_rate.den),
         total_produced |-> total_produced,
         total_dispatched |-> total_dispatched,
         total_rejected |-> total_rejected,
         production_date |-> IF n > 0 THEN month_key_date(all_months[n], 1, today) ELSE today,
         financial_impact |-> total_rejected * COST_PER_REJECTED_UNIT,
         watch_batches |-> watch_count,
         sources |-> SubSeq(agg.sources, 1, Min(10, Len(agg.sources)))]

STAGE_NAMES == [SHOPFLOOR |-> "Shopfloor Rejection", ASSEMBLY |-> "Assembly Inspection",
                VISUAL |-> "Visual Inspection", INTEGRITY |-> "Balloon & Valve Integrity"]

StageKPI(stage_code, months_data, total_rejected) ==
    LET inspected == SumSeq([j \in 1..Len(months_data) |-> months_data[j].v.inspected])
        accepted == SumSeq([j \in 1..Len(months_data) |-> months_data[j].v.accepted])
        rejected == SumSeq([j \in 1..Len(months_data) |-> months_data[j].v.rejected])
    IN  [stage_code |-> stage_code,
         stage_name |-> IF stage_code \in DOMAIN STAGE_NAMES THEN STAGE_NAMES[stage_code] ELSE stage_code,
         inspected |-> inspected,
         accepted |-> accepted,
         rejected |-> rejected,
         rejection_rate |-> IF inspected > 0 THEN Round2(rejected * 100, inspected) ELSE 0,
         contribution_percent |-> IF total_rejected > 0 THEN Round2(rejected * 100, total_rejected) ELSE 0,
         sources |-> <<>>]

RECURSIVE InsertByRejected(_, _)
InsertByRejected(sorted, x) ==
    IF Len(sorted) = 0 THEN <<x>>
    ELSE IF Head(sorted).rejected >= x.rejected
         THEN <<Head(sorted)>> \o InsertByRejected(Tail(sorted), x)
    ELSE <<x>> \o sorted

RECURSIVE SortByRejectedDesc(_)
SortByRejectedDesc(items) ==
    IF Len(items) = 0 THEN <<>>
    ELSE InsertByRejected(SortByRejectedDesc(SubSeq(items, 1, Len(items) - 1)), items[Len(items)])

compute_stage_kpis(agg) ==
    SortByRejectedDesc([i \in 1..Len(agg.stages) |->
                           StageKPI(agg.stages[i].k, agg.stages[i].v, total_rejected_of(agg))])

TrendDataPoint(date, value, label) ==
    [date |-> date, value |-> value, label |-> label, sources |-> <<>>]

compute_rejection_trend(agg, today) ==
    LET months == sorted_production_months(agg)
        series_data ==
            [i \in 1..Len(months) |->
                LET rate == rate_of(rejected_in_month(agg, months[i]),
                                    DictGet(agg.production, months[i], NoProduction).produced)
                IN  TrendDataPoint(month_key_date(months[i], 15, today),
                                   Round2(rate.num, rate.den), months[i])]
    IN  [title |-> "Monthly Rejection Rate Trend",
         x_label |-> "Month",
         y_label |-> "Rejection Rate (%)",
         series |-> << [name |-> "Rejection %", data |-> series_data, color |-> "#ef4444"] >>]

DefectTrend(defect_code, months, all_months, today) ==
    LET monthly_data == [i \in 1..Len(all_months) |->
                            TrendDataPoint(month_key_date(all_months[i], 15, today),
                                           DictGet(months, all_months[i], 0), all_months[i])]
        n == Len(monthly_data)
        half == n \div 2
        first_half == SumSeq([i \in 1..half |-> monthly_data[i].value])
        second_half == SumSeq([i \in 1..(n - half) |-> monthly_data[half + i].value])
        total == SumSeq([i \in 1..n |-> monthly_data[i].value])
    IN  [defect_code |-> defect_code,
         defect_name |-> StrTitle(StrReplaceChar(defect_code, "_", " ")),
         monthly_data |-> monthly_data,
         average_rate |-> IF n > 0 THEN Round2(total, n) ELSE 0,
         trend_direction |-> IF n >= 2
                             THEN (IF 10 * second_half > 11 * first_half THEN "increasing"
                                   ELSE IF 10 * second_half < 9 * first_half THEN "decreasing"
                                   ELSE "stable")
                             ELSE "stable"]

compute_visual_defect_trends(agg, today) ==
    LET sorted == SortByCountDesc(defect_totals_of(agg.defects))
        top_defects == SubSeq(sorted, 1, Min(5, Len(sorted)))
        all_months == SortedStrings(UNION { SeqToSet(DictKeys(agg.defects[i].v)) :
                                             i \in 1..Len(agg.defects) })
    IN  [i \in 1..Len(top_defects) |->
            DefectTrend(top_defects[i].k, DictGet(agg.defects, top_defects[i].k, <<>>),
                        all_months, today)]

\* the narrative, as the values its template is filled with
generate_business_summary(kpis, stage_kpis, defect_pareto) ==
    <<"Summary", kpis.yield_rate, kpis.rejection_rate, kpis.financial_impact>>
    \o (IF Len(stage_kpis) > 0
        THEN <<"Focus on", stage_kpis[1].stage_name, stage_kpis[1].rejection_rate>> ELSE <<>>)
    \o (IF Len(defect_pareto.defects) > 0
        THEN <<"Fix", defect_pareto.defects[1].defect_name, defect_pareto.defects[1].percentage>>
        ELSE <<>>)
    \o (IF kpis.rejection_trend = "up" THEN <<"Trending UP">>
        ELSE IF kpis.rejection_trend = "down" THEN <<"Trending DOWN">> ELSE <<>>)

\* the part of compute_statistics after the extraction loops; `today` is what
\* date.today() returns and `utcnow` what datetime.utcnow() returns
stats_of(agg, today, utcnow) ==
    LET kpis == compute_kpis(agg, today)
        stage_kpis == compute_stage_kpis(agg)
        defect_pareto == compute_defect_pareto(agg.defects)
    IN  [kpis |-> kpis,
         stage_kpis |-> stage_kpis,
         rejection_trend |-> compute_rejection_trend(agg, today),
         defect_pareto |-> defect_pareto,
         visual_defect_trends |-> compute_visual_defect_trends(agg, today),
         ai_summary |-> generate_business_summary(kpis, stage_kpis, defect_pareto),
         generated_at |-> utcnow]

\* int(x) raises ValueError for a nan: the totals compute_kpis and
\* compute_stage_kpis convert are sums over every accumulated field but received
int_raises(agg) ==
    \E place \in agg.nan : place[1] \in {"production", "stages"} /\ place[4] # "received"

compute_statistics(parsed_files, today, utcnow) ==
    stats_of(FoldFrom(NewAggregator, fold_order(parsed_files), 1), today, utcnow)

-----------------------------------------------------------------------------
(* Session store: src/backend/app/db/session.py *)

\* Optional arguments and nullable columns: Nil is None / NULL, Some(x) a value.
Nil == <<>>
Some(x) == <<x>>

NoSession ==
    [exists |-> FALSE, status |-> "none", progress_percent |-> 0,
     current_stage |-> <<"Waiting">>, files_received |-> 0, files_processed |-> 0,
     errors |-> <<>>, started_at |-> Nil, completed_at |-> Nil]

\* create_session: the INSERT, the other columns at their defaults
create_session(files_received, utcnow) ==
    [exists |-> TRUE, status |-> "uploading", progress_percent |-> 0,
     current_stage |-> <<"Waiting">>, files_received |-> files_received,
     files_processed |-> 0, errors |-> <<>>, started_at |-> Some(utcnow),
     completed_at |-> Nil]

\* the keyword arguments of update_session, all None
NoUpdate ==
    [status |-> Nil, progress_percent |-> Nil, current_stage |-> Nil,
     files_processed |-> Nil, errors |-> Nil, completed_at |-> Nil]

\* update_session: every argument that is not None overwrites its column
update_session(row, upd) ==
    IF ~row.exists THEN row
    ELSE [row EXCEPT
            !.status = IF upd.status # Nil THEN upd.status[1] ELSE @,
            !.progress_percent = IF upd.progress_percent # Nil THEN upd.progress_percent[1] ELSE @,
            !.current_stage = IF upd.current_stage # Nil THEN upd.current_stage[1] ELSE @,
            !.files_processed = IF upd.files_processed # Nil THEN upd.files_processed[1] ELSE @,
            !.errors = IF upd.errors # Nil THEN upd.errors[1] ELSE @,
            !.completed_at = IF upd.completed_at # Nil THEN upd.completed_at ELSE @]

NoProcessedData ==
    [exists |-> FALSE, raw_data |-> Nil, validated_data |-> Nil, computed_stats |-> Nil]

\* save_processed_data: UPDATE of the columns given when the row exists, else INSERT
\* (the Supabase sync is off: settings.database_url is the SQLite URL)
save_processed_data(row, raw_data, validated_data, computed_stats) ==
    IF row.exists
    THEN [row EXCEPT
            !.raw_data = IF raw_data # Nil THEN raw_data ELSE @,
            !.validated_data = IF validated_data # Nil THEN validated_data ELSE @,
            !.computed_stats = IF computed_stats # Nil THEN computed_stats ELSE @]
    ELSE [exists |-> TRUE, raw_data |-> raw_data, validated_data |-> validated_data,
          computed_stats |-> computed_stats]

\* get_processed_data(upload_id)["computed_stats"], Nil also when there is no row
get_processed_stats(row) == IF row.exists THEN row.computed_stats ELSE Nil

-----------------------------------------------------------------------------
(* Orchestration: src/backend/app/pipelines/__init__.py *)

\* the update_session calls of process_files, in the order of the code
parsing_update ==
    [NoUpdate EXCEPT !.status = Some("parsing"), !.progress_percent = Some(10),
                     !.current_stage = Some(<<"Parsing Excel files">>)]

files_parsed_of(parsed_files) ==
    SumSeq([i \in 1..Len(parsed_files) |->
               Cardinality({ j \in 1..Len(parsed_files[i].v) : parsed_files[i].v[j].success })])

parsed_update(parsed_files, total_files) ==
    [NoUpdate EXCEPT !.progress_percent = Some(40),
                     !.current_stage = Some(<<"Parsed files", files_parsed_of(parsed_files), total_files>>),
                     !.files_processed = Some(files_parsed_of(parsed_files))]

raw_data_of(parsed_files) ==
    [i \in 1..Len(parsed_files) |->
        [k |-> parsed_files[i].k,
         v |-> [j \in 1..Len(parsed_files[i].v) |->
                  LET r == parsed_files[i].v[j]
                  IN  [file_name |-> r.file_name,
                       success |-> r.success,
                       sheets |-> [n \in 1..Len(r.sheets) |->
                                      [name |-> r.sheets[n].name,
                                       headers |-> r.sheets[n].headers,
                                       row_count |-> r.sheets[n].row_count]],
                       errors |-> r.errors]]]]

validating_update ==
    [NoUpdate EXCEPT !.status = Some("validating"), !.progress_percent = Some(50),
                     !.current_stage = Some(<<"Validating data consistency">>)]

\* the abort test with the threshold at 100% instead of 50%
too_many_errors_all(vr) == ~vr.valid /\ vr.error_rows > vr.total_rows

\* not validation_result.valid and error_rows > total_rows * 0.5
too_many_errors(vr) == ~vr.valid /\ 2 * vr.error_rows > vr.total_rows

MAX_ERRORS_SURFACED == 10
MAX_FINDINGS_SAVED == 20

FirstN(q, n) == SubSeq(q, 1, Min(n, Len(q)))

\* [e.message for e in validation_result.errors[:10]]
surfaced_errors(vr) ==
    LET head == FirstN(vr.errors, MAX_ERRORS_SURFACED)
    IN  [i \in 1..Len(head) |-> head[i].message]

abort_update(vr, utcnow) ==
    [NoUpdate EXCEPT !.status = Some("failed"), !.progress_percent = Some(100),
                     !.current_stage = Some(<<"Validation failed - too many errors">>),
                     !.errors = Some(surfaced_errors(vr)),
                     !.completed_at = Some(utcnow)]

validated_update(vr) ==
    [NoUpdate EXCEPT !.progress_percent = Some(70),
                     !.current_stage = Some(<<"Validated rows", vr.valid_rows, vr.total_rows>>)]

finding_summary(f) ==
    [message |-> f.message,
     source |-> [file_name |-> f.source.file_name, sheet_name |-> f.source.sheet_name,
                 row_numbers |-> f.source.row_numbers]]

validated_data_of(vr) ==
    [valid |-> vr.valid, total_rows |-> vr.total_rows, valid_rows |-> vr.valid_rows,
     error_rows |-> vr.error_rows,
     errors |-> [i \in 1..Min(MAX_FINDINGS_SAVED, Len(vr.errors)) |-> finding_summary(vr.errors[i])],
     warnings |-> [i \in 1..Min(MAX_FINDINGS_SAVED, Len(vr.warnings)) |-> finding_summary(vr.warnings[i])]]

\* date.isoformat()
isoformat(d) == Pad4(d.y) \o "-" \o Pad2(d.m) \o "-" \o Pad2(d.d)

dump_point(point) == [point EXCEPT !.date = isoformat(@)]

\* stats.model_dump(mode="json"): dates become ISO strings, generated_at the
\* ISO text of the clock reading
model_dump(stats) ==
    [stats EXCEPT
        !.kpis.production_date = isoformat(@),
        !.rejection_trend.series =
            [k \in 1..Len(@) |->
                [@[k] EXCEPT !.data = [j \in 1..Len(@) |-> dump_point(@[j])]]],
        !.visual_defect_trends =
            [k \in 1..Len(@) |->
                [@[k] EXCEPT !.monthly_data = [j \in 1..Len(@) |-> dump_point(@[j])]]],
        !.generated_at = <<"isoformat", @>>]

\* the third status update writing the status of the first
computing_wrong_status ==
    [NoUpdate EXCEPT !.status = Some("parsing"), !.progress_percent = Some(80),
                     !.current_stage = Some(<<"Computing statistics and trends">>)]

computing_update ==
    [NoUpdate EXCEPT !.status = Some("computing"), !.progress_percent = Some(80),
                     !.current_stage = Some(<<"Computing statistics and trends">>)]

completed_update(total_files, utcnow) ==
    [NoUpdate EXCEPT !.status = Some("completed"), !.progress_percent = Some(100),
                     !.current_stage = Some(<<"Processing complete">>),
                     !.files_processed = Some(total_files),
                     !.completed_at = Some(utcnow)]

\* an except branch that records the message but leaves status and completed_at
error_update_no_status(message, utcnow) ==
    [NoUpdate EXCEPT !.progress_percent = Some(100),
                     !.current_stage = Some(<<"Error", message>>),
                     !.errors = Some(<<message>>)]

\* the except branch: str(e) is the message the stage raised with
error_update(message, utcnow) ==
    [NoUpdate EXCEPT !.status = Some("failed"), !.progress_percent = Some(100),
                     !.current_stage = Some(<<"Error", message>>),
                     !.errors = Some(<<message>>),
                     !.completed_at = Some(utcnow)]

\* cancel_upload's update_session call: src/backend/app/routers/upload.py
cancel_update(utcnow) ==
    [NoUpdate EXCEPT !.status = Some("failed"),
                     !.current_stage = Some(<<"Cancelled">>),
                     !.completed_at = Some(utcnow)]

\* one aggregator object shared by every call
shared_aggregator(objects) == 1

\* aggregator = DataAggregator(): a new object, one that no other call holds
new_aggregator(objects) == Len(objects) + 1

-----------------------------------------------------------------------------
(* The workbooks the uploads are drawn from *)

Sheet(title, grid) == [title |-> title, grid |-> grid, merged |-> <<>>]
Workbook(name, sheets) == [name |-> name, corrupt |-> FALSE, sheets |-> sheets]
NotAWorkbook(name) == [name |-> name, corrupt |-> TRUE, sheets |-> <<>>]

\* yearly production: two months
ProductionFile ==
    Workbook("YEARLY PRODUCTION COMMULATIVE 2025-26.xlsx",
      << Sheet("Production",
           << <<Str("MONTH"), Str("PRODUCTION QTY"), Str("DISPATCH QTY")>>,
              <<Str("2025-04"), Num(100), Num(90)>>,
              <<Str("May 2025"), Num(200), Num(180)>> >>) >>)

\* assembly inspection: one consistent row, one with rejected > received
AssemblyFile ==
    Workbook("ASSEMBLY REJECTION REPORT.xlsx",
      << Sheet("APR 25",
           << <<Str("RECEIVED QTY"), Str("REJECTED QTY"), Str("COAG")>>,
              <<Num(10), Num(2), Num(2)>>,
              <<Num(5), Num(8), None>> >>) >>)

\* visual inspection: its only row is inconsistent
VisualFile ==
    Workbook("Visual Inspection Report.xlsx",
      << Sheet("MAY 25",
           << <<Str("RECEIVED QTY"), Str("REJECTED QTY")>>,
              <<Num(5), Num(8)>> >>) >>)

\* integrity inspection: eleven inconsistent rows
ManyErrorsFile ==
    Workbook("Balloon & Valve Integrity.xlsx",
      << Sheet("JUN 25",
           << <<Str("RECEIVED QTY"), Str("REJECTED QTY")>> >>
           \o [i \in 1..(MAX_ERRORS_SURFACED + 1) |-> <<Num(i), Num(i + 1)>>]) >>)

\* production totals with a quantity cell that holds the text "nan"
NanFile ==
    Workbook("YEARLY PRODUCTION COMMULATIVE 2024-25.xlsx",
      << Sheet("Production",
           << <<Str("MONTH"), Str("PRODUCTION QTY"), Str("DISPATCH QTY")>>,
              <<Str("2025-04"), Num(100), Num(90)>>,
              <<Str("2025-04"), Str("nan"), Num(0 - 40)>> >>) >>)

\* a file load_workbook cannot open
CorruptFile == NotAWorkbook("SHOPFLOOR REJECTION REPORT.xlsx")

\* a workbook whose only sheets are skipped or have no data rows
NoSheetsFile ==
    Workbook("COMMULATIVE 2025-26.xlsx",
      << Sheet("Summary", << <<Str("MONTH"), Str("TOTAL")>>, <<Str("2025-04"), Num(1)>> >>),
         Sheet("Data", << <<Str("MONTH"), Str("REJECTED QTY")>> >>) >>)

\* a workbook no filename pattern matches
UnknownFile ==
    Workbook("notes.xlsx",
      << Sheet("Sheet1", << <<Str("DATE"), Str("REMARKS")>>, <<Str("2025-04"), Str("ok")>> >>) >>)

Workbooks ==
    {ProductionFile, AssemblyFile, VisualFile, ManyErrorsFile, NanFile, CorruptFile,
     NoSheetsFile, UnknownFile}

PathsOf(files) == [k \in 1..Len(files) |-> files[k].name]

\* the file saved under a path of the upload directory
workbook_at(path) == CHOOSE f \in Workbooks : f.name = path

Batches ==
    { <<ProductionFile, AssemblyFile>>,
      <<AssemblyFile, VisualFile>>,
      <<VisualFile>>,
      <<ManyErrorsFile>>,
      <<NanFile>>,
      <<CorruptFile, ProductionFile>>,
      <<NoSheetsFile>>,
      <<UnknownFile>> }

\* the batches of the runs with two concurrent uploads
ConcurrentBatches ==
    { <<ProductionFile, AssemblyFile>>,
      <<AssemblyFile>>,
      <<CorruptFile, ProductionFile>>,
      <<VisualFile>> }

\* the batches a run of the system draws its uploads from
BatchesOf(which) ==
    IF which = "all" THEN Batches
    ELSE IF which = "concurrent" THEN ConcurrentBatches
    ELSE {}

-----------------------------------------------------------------------------
(* Uploads, process_files tasks and cancel_upload requests *)

Uploads == {1, 2}

MaxClock == 1
MaxCancels == 1

\* The clock counts half days from 2026-11-03 00:00 UTC (Excel serial 46329).
date_today(t) == CivilFromDays(EXCEL_EPOCH_DAYS + 46329 + t \div 2)

NoTask ==
    [pc |-> "none", parsed_files |-> EmptyResults, i |-> 0,
     validation_result |-> NewValidationResult, aggregator |-> 0,
     stats |-> Nil, today |-> NoDate, exc |-> Nil]

\* what a step adds to the task's history: the status it wrote, then its events
Logged(u, upd, events) == log' = [log EXCEPT ![u] = @ \o upd.status \o events]

WriteSession(u, upd) == session' = [session EXCEPT ![u] = update_session(@, upd)]

\* upload_files: the files are saved, the session is created and process_files
\* is queued as a background task
UploadFiles(u, files) ==
    /\ u \in env.uploads
    /\ files \in BatchesOf(env.batches)
    /\ ~session[u].exists
    /\ \A v \in env.uploads : v < u => session[v].exists   \* ids name uploads in order of arrival
    /\ upload_dir' = [upload_dir EXCEPT ![u] = TRUE]
    /\ file_paths' = [file_paths EXCEPT ![u] = PathsOf(files)]
    /\ session' = [session EXCEPT ![u] = create_session(Len(files), now)]
    /\ task' = [task EXCEPT ![u] = [NoTask EXCEPT !.pc = "start"]]
    /\ UNCHANGED <<processed_data, heap, log, cancel_pc, cancels, now, env, uvars>>

\* process_files, "Stage 1: PARSING": the first update_session
StartParsing(u) ==
    /\ task[u].pc = "start"
    /\ WriteSession(u, parsing_update)
    /\ Logged(u, parsing_update, <<>>)
    /\ task' = [task EXCEPT ![u].pc = "parse", ![u].i = 1]
    /\ UNCHANGED <<processed_data, upload_dir, file_paths, heap, cancel_pc, cancels, now, env, uvars>>

\* parse_multiple_files in the executor: one iteration of "for path in file_paths"
ParseFile(u) ==
    /\ task[u].pc = "parse"
    /\ task[u].i <= Len(file_paths[u])
    /\ LET i == task[u].i
           result == parse_excel_file(workbook_at(file_paths[u][i]), upload_dir[u])
       IN  /\ task' = [task EXCEPT ![u].parsed_files = AppendResult(@, result),
                                   ![u].i = i + 1]
           /\ Logged(u, NoUpdate,
                     (IF i = 1 THEN <<"parse.start">> ELSE <<>>)
                     \o (IF i = Len(file_paths[u]) THEN <<"parse.return">> ELSE <<>>))
    /\ UNCHANGED <<session, processed_data, upload_dir, file_paths, heap, cancel_pc, cancels, now, env, uvars>>

\* the progress update after parsing
Parsed(u) ==
    /\ task[u].pc = "parse"
    /\ task[u].i > Len(file_paths[u])
    /\ WriteSession(u, parsed_update(task[u].parsed_files, Len(file_paths[u])))
    /\ task' = [task EXCEPT ![u].pc = "save_raw"]
    /\ UNCHANGED <<processed_data, upload_dir, file_paths, heap, log, cancel_pc, cancels, now, env, uvars>>

SaveRaw(u) ==
    /\ task[u].pc = "save_raw"
    /\ processed_data' = [processed_data EXCEPT ![u] =
           save_processed_data(@, Some(raw_data_of(task[u].parsed_files)), Nil, Nil)]
    /\ task' = [task EXCEPT ![u].pc = "set_validating"]
    /\ UNCHANGED <<session, upload_dir, file_paths, heap, log, cancel_pc, cancels, now, env, uvars>>

\* "Stage 2: VALIDATING"
SetValidating(u) ==
    /\ task[u].pc = "set_validating"
    /\ WriteSession(u, validating_update)
    /\ Logged(u, validating_update, <<>>)
    /\ task' = [task EXCEPT ![u].pc = "validate"]
    /\ UNCHANGED <<processed_data, upload_dir, file_paths, heap, cancel_pc, cancels, now, env, uvars>>

\* validate_parsed_data in the executor
Validate(u) ==
    /\ task[u].pc = "validate"
    /\ task' = [task EXCEPT ![u].validation_result = validate_parsed_data(task[u].parsed_files),
                            ![u].pc = "check"]
    /\ Logged(u, NoUpdate, <<"validate.start", "validate.return">>)
    /\ UNCHANGED <<session, processed_data, upload_dir, file_paths, heap, cancel_pc, cancels, now, env, uvars>>

\* "Check if validation has critical errors": abort and return, or report progress
CheckValidation(u) ==
    /\ task[u].pc = "check"
    /\ LET vr == task[u].validation_result
       IN  IF too_many_errors(vr)
           THEN /\ WriteSession(u, abort_update(vr, now))
                /\ Logged(u, abort_update(vr, now), <<>>)
                /\ task' = [task EXCEPT ![u].pc = "done"]
           ELSE /\ WriteSession(u, validated_update(vr))
                /\ Logged(u, validated_update(vr), <<>>)
                /\ task' = [task EXCEPT ![u].pc = "save_validated"]
    /\ UNCHANGED <<processed_data, upload_dir, file_paths, heap, cancel_pc, cancels, now, env, uvars>>

SaveValidated(u) ==
    /\ task[u].pc = "save_validated"
    /\ processed_data' = [processed_data EXCEPT ![u] =
           save_processed_data(@, Nil, Some(validated_data_of(task[u].validation_result)), Nil)]
    /\ task' = [task EXCEPT ![u].pc = "set_computing"]
    /\ UNCHANGED <<session, upload_dir, file_paths, heap, log, cancel_pc, cancels, now, env, uvars>>

\* "Stage 3: COMPUTING"
SetComputing(u) ==
    /\ task[u].pc = "set_computing"
    /\ WriteSession(u, computing_update)
    /\ Logged(u, computing_update, <<>>)
    /\ task' = [task EXCEPT ![u].pc = "compute"]
    /\ UNCHANGED <<processed_data, upload_dir, file_paths, heap, cancel_pc, cancels, now, env, uvars>>

\* compute_statistics in the executor: aggregator = DataAggregator()
ComputeStart(u) ==
    /\ task[u].pc = "compute"
    /\ task[u].aggregator = 0
    /\ LET h == new_aggregator(heap)
       IN  /\ heap' = IF h > Len(heap) THEN Append(heap, NewAggregator) ELSE heap
           /\ task' = [task EXCEPT ![u].aggregator = h, ![u].i = 1]
    /\ Logged(u, NoUpdate, <<"compute.start">>)
    /\ UNCHANGED <<session, processed_data, upload_dir, file_paths, cancel_pc, cancels, now, env, uvars>>

\* one row of the extraction loops folded into the task's aggregator
FoldRow(u) ==
    /\ task[u].pc = "compute"
    /\ task[u].aggregator # 0
    /\ task[u].i <= Len(fold_order(task[u].parsed_files))
    /\ heap' = [heap EXCEPT ![task[u].aggregator] =
                   fold_row(@, fold_order(task[u].parsed_files)[task[u].i])]
    /\ task' = [task EXCEPT ![u].i = @ + 1]
    /\ UNCHANGED <<session, processed_data, upload_dir, file_paths, log, cancel_pc, cancels, now, env, uvars>>

\* the rest of compute_statistics: the StatsResponse is built and returned
ComputeFinish(u) ==
    /\ task[u].pc = "compute"
    /\ task[u].aggregator # 0
    /\ task[u].i > Len(fold_order(task[u].parsed_files))
    /\ IF int_raises(heap[task[u].aggregator])
       THEN /\ task' = [task EXCEPT
                          ![u].exc = Some(<<"cannot convert float NaN to integer">>),
                          ![u].pc = "handler"]
            /\ Logged(u, NoUpdate, <<"raised">>)
       ELSE /\ task' = [task EXCEPT
                          ![u].stats = Some(stats_of(heap[task[u].aggregator], date_today(now), now)),
                          ![u].today = date_today(now),
                          ![u].pc = "save_stats"]
            /\ Logged(u, NoUpdate, <<"compute.return">>)
    /\ UNCHANGED <<session, processed_data, upload_dir, file_paths, heap, cancel_pc, cancels, now, env, uvars>>

\* a task that goes on to "Complete" without storing the statistics
SaveStatsSkipped(u) ==
    /\ task[u].pc = "save_stats"
    /\ task' = [task EXCEPT ![u].pc = "set_completed"]
    /\ UNCHANGED <<session, processed_data, upload_dir, file_paths, heap, log, cancel_pc, cancels, now, env, uvars>>

\* stats_dict = stats.model_dump(mode="json"); save_processed_data(computed_stats=...)
SaveStats(u) ==
    /\ task[u].pc = "save_stats"
    /\ processed_data' = [processed_data EXCEPT ![u] =
           save_processed_data(@, Nil, Nil, Some(model_dump(task[u].stats[1])))]
    /\ task' = [task EXCEPT ![u].pc = "set_completed"]
    /\ UNCHANGED <<session, upload_dir, file_paths, heap, log, cancel_pc, cancels, now, env, uvars>>

\* "Complete"
SetCompleted(u) ==
    /\ task[u].pc = "set_completed"
    /\ WriteSession(u, completed_update(Len(file_paths[u]), now))
    /\ Logged(u, completed_update(Len(file_paths[u]), now), <<>>)
    /\ task' = [task EXCEPT ![u].pc = "done"]
    /\ UNCHANGED <<processed_data, upload_dir, file_paths, heap, cancel_pc, cancels, now, env, uvars>>

\* the positions inside the try block at which a stage or a save can raise
RaisingStages == {"parse", "save_raw", "validate", "save_validated", "compute", "save_stats"}

\* a stage raises: control passes to "except Exception as e"
StageRaises(u) ==
    /\ task[u].pc \in RaisingStages
    /\ task' = [task EXCEPT ![u].exc = Some(<<"raised in", task[u].pc>>),
                            ![u].pc = "handler"]
    /\ Logged(u, NoUpdate, <<"raised">>)
    /\ UNCHANGED <<session, processed_data, upload_dir, file_paths, heap, cancel_pc, cancels, now, env, uvars>>

\* the except branch of process_files
HandleError(u) ==
    /\ task[u].pc = "handler"
    /\ WriteSession(u, error_update(task[u].exc[1], now))
    /\ Logged(u, error_update(task[u].exc[1], now), <<>>)
    /\ task' = [task EXCEPT ![u].pc = "done"]
    /\ UNCHANGED <<processed_data, upload_dir, file_paths, heap, cancel_pc, cancels, now, env, uvars>>

\* cancel_upload up to its update_session: get_session finds the upload and the
\* upload directory is removed
CancelBegin(u) ==
    /\ session[u].exists
    /\ cancel_pc[u] = "idle"
    /\ cancels[u] < MaxCancels
    /\ upload_dir' = [upload_dir EXCEPT ![u] = FALSE]
    /\ cancel_pc' = [cancel_pc EXCEPT ![u] = "update"]
    /\ cancels' = [cancels EXCEPT ![u] = @ + 1]
    /\ UNCHANGED <<session, processed_data, file_paths, task, heap, log, now, env, uvars>>

\* cancel_upload's update_session, after which the request returns
CancelEnd(u) ==
    /\ cancel_pc[u] = "update"
    /\ WriteSession(u, cancel_update(now))
    /\ cancel_pc' = [cancel_pc EXCEPT ![u] = "idle"]
    /\ UNCHANGED <<processed_data, upload_dir, file_paths, task, heap, log, cancels, now, env, uvars>>

\* time passes
Tick ==
    /\ now < MaxClock
    /\ now' = now + 1
    /\ UNCHANGED <<session, processed_data, upload_dir, file_paths, task, heap, log,
                   cancel_pc, cancels, env, uvars>>

PipelineInit(uploads, batches) ==
    /\ session = [u \in Uploads |-> NoSession]
    /\ processed_data = [u \in Uploads |-> NoProcessedData]
    /\ upload_dir = [u \in Uploads |-> FALSE]
    /\ file_paths = [u \in Uploads |-> <<>>]
    /\ task = [u \in Uploads |-> NoTask]
    /\ heap = <<>>
    /\ log = [u \in Uploads |-> <<>>]
    /\ cancel_pc = [u \in Uploads |-> "idle"]
    /\ cancels = [u \in Uploads |-> 0]
    /\ now = 0
    /\ env = [uploads |-> uploads, batches |-> batches]

NoPipeline == PipelineInit({}, "none")

NotConverted == [called |-> FALSE, date |-> NoDate]
NoDates == ds_serial = None /\ ds_date = NotConverted
NotParsed == [called |-> FALSE, returned |-> <<>>]
NoScoring == hs_rows = <<>> /\ hs_scores = <<>>
NoSheet == sh_sheet = [title |-> "", grid |-> <<>>, merged |-> <<>>]
           /\ sh_header_row = 0 /\ sh_parsed = NotParsed
NoValidation == vd_type = "unknown" /\ vd_item = <<>>
                /\ vd_result = NewValidationResult /\ vd_count = 0
NoRow == rw_item = <<>> /\ rw_result = NotParsed /\ rw_agg = NotParsed
NoKpis == kp_items = <<>> /\ kp_agg = NotParsed /\ kp_kpis = NotParsed

Idle == cl_name = "" /\ cl_result = "pending" /\ pa_defects = <<>>
        /\ pa_chart = [title |-> "", defects |-> <<>>, threshold_80 |-> 0 - 1]
        /\ NoDates /\ NoScoring /\ NoSheet /\ NoValidation /\ NoRow /\ NoKpis

\* one upload at a time, every batch, cancellation and failing stages
Init == Idle /\ PipelineInit({1}, "all")

Next ==
    \/ \E u \in Uploads, files \in Batches : UploadFiles(u, files)
    \/ \E u \in Uploads : StartParsing(u)
    \/ \E u \in Uploads : ParseFile(u)
    \/ \E u \in Uploads : Parsed(u)
    \/ \E u \in Uploads : SaveRaw(u)
    \/ \E u \in Uploads : SetValidating(u)
    \/ \E u \in Uploads : Validate(u)
    \/ \E u \in Uploads : CheckValidation(u)
    \/ \E u \in Uploads : SaveValidated(u)
    \/ \E u \in Uploads : SetComputing(u)
    \/ \E u \in Uploads : ComputeStart(u)
    \/ \E u \in Uploads : FoldRow(u)
    \/ \E u \in Uploads : ComputeFinish(u)
    \/ \E u \in Uploads : SaveStats(u)
    \/ \E u \in Uploads : SetCompleted(u)
    \/ \E u \in Uploads : StageRaises(u)
    \/ \E u \in Uploads : HandleError(u)
    \/ \E u \in Uploads : CancelBegin(u)
    \/ \E u \in Uploads : CancelEnd(u)
    \/ Tick

Spec == Init /\ [][Next]_vars

\* two uploads processed concurrently
ConcurrentInit == Idle /\ PipelineInit(Uploads, "concurrent")

ConcurrentNext ==
    \/ \E u \in Uploads, files \in ConcurrentBatches : UploadFiles(u, files)
    \/ \E u \in Uploads : StartParsing(u)
    \/ \E u \in Uploads : ParseFile(u)
    \/ \E u \in Uploads : Parsed(u)
    \/ \E u \in Uploads : SaveRaw(u)
    \/ \E u \in Uploads : SetValidating(u)
    \/ \E u \in Uploads : Validate(u)
    \/ \E u \in Uploads : CheckValidation(u)
    \/ \E u \in Uploads : SaveValidated(u)
    \/ \E u \in Uploads : SetComputing(u)
    \/ \E u \in Uploads : ComputeStart(u)
    \/ \E u \in Uploads : FoldRow(u)
    \/ \E u \in Uploads : ComputeFinish(u)
    \/ \E u \in Uploads : SaveStats(u)
    \/ \E u \in Uploads : SetCompleted(u)
    \/ Tick

SpecConcurrent == ConcurrentInit /\ [][ConcurrentNext]_vars

-----------------------------------------------------------------------------
(* The classifier on bounded filenames *)

MaxNameWords == 3

NameWords == { "YEARLY", "Production COMMULATIVE", "COMMULATIVE", "2025-26",
               "ASSEMBLY REJECTION REPORT", "Visual", "Inspection Report",
               "Integrity", "Balloon & Valve", "SHOPFLOOR rejection REPORT" }

RECURSIVE JoinWords(_)
JoinWords(ws) ==
    IF Len(ws) = 0 THEN ".xlsx"
    ELSE IF Len(ws) = 1 THEN ws[1] \o ".xlsx"
    ELSE ws[1] \o " " \o JoinWords(Tail(ws))

FileNames ==
    { JoinWords(ws) : ws \in UNION { [1..n -> NameWords] : n \in 1..MaxNameWords } }

ClassifyInit ==
    /\ cl_name \in FileNames
    /\ cl_result = "pending"
    /\ pa_defects = <<>>
    /\ pa_chart = [title |-> "", defects |-> <<>>, threshold_80 |-> 0 - 1]
    /\ NoDates /\ NoScoring /\ NoSheet /\ NoValidation /\ NoRow /\ NoKpis
    /\ NoPipeline

Classify ==
    /\ cl_result = "pending"
    /\ cl_result' = detect_file_type(cl_name)
    /\ UNCHANGED <<cl_name, pavars, dsvars, hsvars, shvars, vdvars, rwvars, kpvars, pvars>>

ClassifyNext == Classify

SpecClassify == ClassifyInit /\ [][ClassifyNext]_vars

-----------------------------------------------------------------------------
(* compute_defect_pareto on bounded defect accumulators *)

MaxDefectCodes == 3

ParetoCodes == <<"COAG", "SURFACE", "BUBBLE", "THIN", "DIRTY">>
\* add_defect is only called with count > 0, so every total is positive
ParetoCounts == {5, 15, 20, 80}

ParetoDefects ==
    { [i \in 1..n |-> [k |-> ParetoCodes[i],
                       v |-> << [k |-> "2025-04", v |-> c[i]] >>]] :
        n \in 0..MaxDefectCodes, c \in [1..MaxDefectCodes -> ParetoCounts] }

NoChart == [title |-> "", defects |-> <<>>, threshold_80 |-> 0 - 1]

ParetoInit ==
    /\ pa_defects \in ParetoDefects
    /\ pa_chart = NoChart
    /\ cl_name = ""
    /\ cl_result = "pending"
    /\ NoDates /\ NoScoring /\ NoSheet /\ NoValidation /\ NoRow /\ NoKpis
    /\ NoPipeline

ComputePareto ==
    /\ pa_chart = NoChart
    /\ pa_chart' = compute_defect_pareto(pa_defects)
    /\ UNCHANGED <<pa_defects, cvars, dsvars, hsvars, shvars, vdvars, rwvars, kpvars, pvars>>

ParetoNext == ComputePareto

SpecPareto == ParetoInit /\ [][ParetoNext]_vars

-----------------------------------------------------------------------------
(* excel_serial_to_date on bounded cell values *)

\* serials are taken this far on either side of 1, of 45748 and of the
\* largest day count pd.Timedelta holds
SerialWindow == 10

SerialCentres == {1, 45748, MAX_TIMEDELTA_DAYS}

DateInputs ==
    { Num(c + k) : c \in SerialCentres, k \in (0 - SerialWindow)..SerialWindow }
    \cup { DateCell(2025, 4, 15), DateCell(1899, 12, 30), DateCell(2024, 2, 29),
           DateCell(2200, 1, 1) }
    \cup { Str("April 2025"), Str(" apr 2025 "), Str("2025-04-15"), Str("15-04-2025"),
           Str("15/04/2025"), Str("31/04/2025"), Str("Q1 2025") }
    \cup { None }

DatesInit ==
    /\ ds_serial \in DateInputs
    /\ ds_date = NotConverted
    /\ cl_name = "" /\ cl_result = "pending" /\ pa_defects = <<>> /\ pa_chart = NoChart
    /\ NoScoring /\ NoSheet /\ NoValidation /\ NoRow /\ NoKpis
    /\ NoPipeline

ConvertSerial ==
    /\ ~ds_date.called
    /\ ds_date' = [called |-> TRUE, date |-> excel_serial_to_date_value(ds_serial)]
    /\ UNCHANGED <<ds_serial, cvars, pavars, hsvars, shvars, vdvars, rwvars, kpvars, pvars>>

DatesNext == ConvertSerial

SpecDates == DatesInit /\ [][DatesNext]_vars

-----------------------------------------------------------------------------
(* score_row_as_header on bounded rows, two rows at a time *)

MaxRowCells == 2

ScoreCells == { None, Str("  "), Str("Date"), Str("Widget"), Num(5) }

\* rows longer than the ten cells the score is normalised to
LongRows == { [i \in 1..n |-> c] : n \in {11, 12}, c \in {Str("Rej Qty"), Str("Widget"), Num(5)} }

ScoreRows == UNION { [1..n -> ScoreCells] : n \in 0..MaxRowCells } \cup LongRows

ScoringInit ==
    /\ hs_rows \in ScoreRows \X ScoreRows
    /\ hs_scores = <<>>
    /\ cl_name = "" /\ cl_result = "pending" /\ pa_defects = <<>> /\ pa_chart = NoChart
    /\ NoDates /\ NoSheet /\ NoValidation /\ NoRow /\ NoKpis
    /\ NoPipeline

ScoreBoth ==
    /\ hs_scores = <<>>
    /\ hs_scores' = [i \in 1..Len(hs_rows) |-> score_row_as_header(hs_rows[i])]
    /\ UNCHANGED <<hs_rows, cvars, pavars, dsvars, shvars, vdvars, rwvars, kpvars, pvars>>

ScoringNext == ScoreBoth

SpecScoring == ScoringInit /\ [][ScoringNext]_vars

-----------------------------------------------------------------------------
(* validate_parsed_data, one parse result at a time, on bounded rows *)

MaxValidated == 2

\* a row as parse_sheet builds it: the columns, then _source_row
RowOf(columns, row_idx) == columns \o << [k |-> "_source_row", v |-> Num(row_idx)] >>

\* a parse result holding one sheet of one row
OneRowResult(file_type, file_name, row) ==
    [file_name |-> file_name, file_type |-> file_type, errors |-> <<>>, success |-> TRUE,
     sheets |-> << [name |-> "APRIL 25", headers |-> [i \in 1..(Len(row) - 1) |-> row[i].k],
                    data |-> <<row>>, header_row |-> 1, file_name |-> file_name,
                    row_count |-> 1] >>]

FailedResult(file_type, file_name) ==
    [file_name |-> file_name, file_type |-> file_type, sheets |-> <<>>, success |-> FALSE,
     errors |-> << <<"Failed to parse file", "File is not a zip file">> >>]

ProductionQuantities == { None, Num(1000), Num(0 - 5) }
RejectionQuantities ==
    { None, Num(1000), Num(1200), Str("1,200"), Str("nan"), Num(0 - 7) }

ProductionRows ==
    { RowOf(<< [k |-> "MONTH", v |-> Str("April 2025")],
               [k |-> "PRODUCTION QTY", v |-> p],
               [k |-> "TOTAL REJECTION", v |-> r] >>, 2) :
        p \in ProductionQuantities, r \in RejectionQuantities }

InspectionRows ==
    { RowOf(<< [k |-> "RECEIVED QTY", v |-> received],
               [k |-> "INSPECTED QTY", v |-> inspected],
               [k |-> "ACCEPTED QTY", v |-> Num(90)],
               [k |-> "REJECTED QTY", v |-> rejected] >>, 3) :
        received \in { None, Num(10) },
        inspected \in { None, Num(100) },
        rejected \in { Num(9), Num(11), Num(12) } }
    \cup { RowOf(<< [k |-> "INSPECTED QTY", v |-> Num(100)],
                    [k |-> "ACCEPTED QTY", v |-> Num(99)],
                    [k |-> "REJECTED QTY", v |-> Str("abc")],
                    [k |-> "COAG", v |-> Num(0 - 1)] >>, 4) }

ValidationItems ==
    { OneRowResult("production_cumulative", "YEARLY PRODUCTION COMMULATIVE 2025-26.xlsx", row) :
        row \in ProductionRows }
    \cup { OneRowResult("assembly", "ASSEMBLY REJECTION REPORT.xlsx", row) :
             row \in InspectionRows }
    \cup { OneRowResult("cumulative", "COMMULATIVE 2025-26.xlsx",
                        RowOf(<< [k |-> "PRODUCED", v |-> Num(10)],
                                 [k |-> "REJECTED", v |-> Num(11)] >>, 2)),
           OneRowResult("unknown", "notes.xlsx",
                        RowOf(<< [k |-> "PRODUCED", v |-> Num(10)],
                                 [k |-> "REJECTED", v |-> Num(11)] >>, 2)),
           FailedResult("shopfloor", "SHOPFLOOR REJECTION REPORT.xlsx") }

ValidationInit ==
    /\ NoValidation /\ NoRow /\ NoKpis
    /\ cl_name = "" /\ cl_result = "pending" /\ pa_defects = <<>> /\ pa_chart = NoChart
    /\ NoDates /\ NoScoring /\ NoSheet
    /\ NoPipeline

\* one turn of "for parse_result in parse_results"
ValidateOne(parse_result) ==
    /\ vd_type # "returned"
    /\ vd_count < MaxValidated
    /\ vd_type' = parse_result.file_type
    /\ vd_item' = parse_result
    /\ vd_result' = ValidateResults(parse_result.file_type, <<parse_result>>, 1, vd_result)
    /\ vd_count' = vd_count + 1
    /\ UNCHANGED <<cvars, pavars, dsvars, hsvars, shvars, rwvars, kpvars, pvars>>

\* result.valid_rows = result.total_rows - result.error_rows; return result
ReturnValidation ==
    /\ vd_type # "returned"
    /\ vd_type' = "returned"
    /\ vd_result' = [vd_result EXCEPT !.valid_rows = vd_result.total_rows - vd_result.error_rows]
    /\ UNCHANGED <<vd_item, vd_count, cvars, pavars, dsvars, hsvars, shvars, rwvars, kpvars, pvars>>

ValidationNext ==
    \/ \E parse_result \in ValidationItems : ValidateOne(parse_result)
    \/ ReturnValidation

SpecValidation == ValidationInit /\ [][ValidationNext]_vars

-----------------------------------------------------------------------------
(* parse_sheet on bounded worksheets *)

PlainSheet(grid) == [title |-> "APRIL 25", grid |-> grid, merged |-> <<>>]

\* -- sheets for header detection: a few rows over a few kinds of row
MaxSheetRows == 3

RowKinds == { <<Str("Date"), Str("Rejected Qty")>>, <<Str("Date"), Num(5)>>,
              <<Str("Widget"), Str("Gadget")>>, <<Num(5), Num(7)>>, <<Num(5), None>>,
              <<None, None>> }

SmallSheets == { PlainSheet(grid) : grid \in UNION { [1..n -> RowKinds] : n \in 1..MaxSheetRows } }

\* sheets longer than the rows find_header_row scans: `lead` times the row
\* `filler`, then a header row, then a data row
LongSheets ==
    { PlainSheet([r \in 1..(lead + 2) |->
                    IF r <= lead THEN filler
                    ELSE IF r = lead + 1 THEN <<Str("Date"), Str("Rejected Qty")>>
                    ELSE <<Num(45748), Num(3)>>]) :
        lead \in {HEADER_SCAN_ROWS - 1, HEADER_SCAN_ROWS, HEADER_SCAN_ROWS + 1},
        filler \in { <<None, None>>, <<Str("Widget"), None>>, <<Num(5), None>> } }

\* -- sheets with a run of blank rows: a header, a data row, gap1 blank rows,
\* a data row, gap2 blank rows, a data row
MaxGap == 12

GapSheet(gap1, gap2) ==
    PlainSheet([r \in 1..(4 + gap1 + gap2) |->
                  IF r = 1 THEN <<Str("Date"), Str("Rejected Qty")>>
                  ELSE IF r = 2 THEN <<Num(45748), Num(3)>>
                  ELSE IF r <= 2 + gap1 THEN <<None, Str("  ")>>
                  ELSE IF r = 3 + gap1 THEN <<Num(45749), Num(4)>>
                  ELSE IF r <= 3 + gap1 + gap2 THEN <<Str("#N/A"), None>>
                  ELSE <<Num(45750), Num(5)>>])

GapSheets == { GapSheet(gap1, gap2) : gap1 \in 0..MaxGap, gap2 \in 0..MaxGap }

\* -- sheets whose last column has an empty header cell and one value, `at`
\* rows below the header (no value when at = 0)
TrailingSheet(lead, at, rows, value) ==
    PlainSheet([r \in 1..(lead + 1 + rows) |->
                  IF r <= lead THEN <<None, None, None>>
                  ELSE IF r = lead + 1 THEN <<Str("Date"), Str("Rejected Qty"), None>>
                  ELSE <<Num(45748), Num(r), IF r = lead + 1 + at THEN value ELSE None>>])

TrailingSheets ==
    { TrailingSheet(lead, at, rows, value) :
        lead \in {0, 1}, at \in 0..MaxGap, rows \in {9, 10, MaxGap},
        value \in { Num(7), Str("late") } }

\* -- sheets in which two header cells normalise to the same column name
DuplicateSheets ==
    { PlainSheet(<< <<Str("Date"), Str("Qty"), third>>,
                    <<Num(45748), a, b>>,
                    <<Num(45749), b, a>> >>) :
        third \in { Str(" qty"), Str("QTY"), Str("Rejected") },
        a \in { Num(1), Num(2), None }, b \in { Num(1), Num(2), None } }

Worksheets == SmallSheets \cup LongSheets \cup GapSheets \cup TrailingSheets \cup DuplicateSheets

SheetInit ==
    /\ sh_sheet \in Worksheets
    /\ sh_header_row = 0
    /\ sh_parsed = NotParsed
    /\ cl_name = "" /\ cl_result = "pending" /\ pa_defects = <<>> /\ pa_chart = NoChart
    /\ NoDates /\ NoScoring /\ NoValidation /\ NoRow /\ NoKpis
    /\ NoPipeline

\* parse_sheet(sheet, file_name); a sheet of fewer than 2 rows returns before
\* the header row is looked for
ParseSheet ==
    /\ ~sh_parsed.called
    /\ sh_header_row' = IF max_row(sh_sheet) < 2 THEN 0 ELSE header_row_idx_of(sh_sheet)
    /\ sh_parsed' = [called |-> TRUE, returned |-> parse_sheet(sh_sheet, "report.xlsx")]
    /\ UNCHANGED <<sh_sheet, cvars, pavars, dsvars, hsvars, vdvars, rwvars, kpvars, pvars>>

SheetNext == ParseSheet

SpecSheet == SheetInit /\ [][SheetNext]_vars

-----------------------------------------------------------------------------
(* One row through validation and extraction *)

RowItem(file_type, file_name, sheet_name, row) ==
    [file_type |-> file_type,
     sheet |-> [file_name |-> file_name, name |-> sheet_name],
     row |-> row]

\* what the date-like column of a row can hold
MonthCells ==
    { Str("May 2025"), Str("Jun 2025"), Str("2025-06"), Str("07/2025"), Str("n/a"),
      Num(45748), DateCell(2025, 8, 15) }

\* sheet names with and without a month token
MonthSheetNames == { "APR 25", "April 2025", "MAY 125", "Sheet1" }

\* inspection rows that differ in where the month comes from
MonthInspectionItems ==
    { RowItem("assembly", "ASSEMBLY REJECTION REPORT.xlsx", name,
              RowOf(<< [k |-> "DATE", v |-> cell],
                       [k |-> "RECEIVED QTY", v |-> Num(10)],
                       [k |-> "REJECTED QTY", v |-> Num(2)] >>, 2)) :
        name \in MonthSheetNames, cell \in MonthCells }
    \cup { RowItem("visual", "Visual Inspection Report.xlsx", name,
                   RowOf(<< [k |-> "RECEIVED QTY", v |-> Num(10)],
                            [k |-> "REJECTED QTY", v |-> Num(2)],
                            [k |-> "COAG", v |-> Num(1)] >>, 2)) :
             name \in MonthSheetNames }

MonthProductionItems ==
    { RowItem("production_cumulative", "YEARLY PRODUCTION COMMULATIVE 2025-26.xlsx",
              "Production",
              RowOf(<< [k |-> "MONTH", v |-> cell],
                       [k |-> "PRODUCTION QTY", v |-> Num(100)] >>, 2)) :
        cell \in MonthCells }

\* inspection rows that differ in the signs of the quantities
SignedItems ==
    { RowItem("integrity", "Balloon & Valve Integrity.xlsx", "JUN 25",
              RowOf(<< [k |-> "RECEIVED QTY", v |-> received],
                       [k |-> "REJECTED QTY", v |-> rejected] >>, 2)) :
        received \in { Num(5), Num(0 - 5), None },
        rejected \in { Num(2), Num(8), Num(0 - 2), Num(0 - 8), Str("n/a") } }

\* inspection rows that differ in how the columns are headed
HeadedItems ==
    { RowItem("shopfloor", "SHOPFLOOR REJECTION REPORT.xlsx", "JUL 25",
              RowOf(<< [k |-> received, v |-> Num(50)],
                       [k |-> inspected, v |-> Num(40)],
                       [k |-> "ACCEPTED QTY", v |-> Num(37)],
                       [k |-> rejected, v |-> Num(3)] >>, 2)) :
        received \in { "RECEIVED QTY", "REC" },
        inspected \in { "INSPECTED QTY", "INSP", "TOTAL" },
        rejected \in { "REJECTED QTY", "REJ", "NG" } }
    \cup { RowItem("shopfloor", "SHOPFLOOR REJECTION REPORT.xlsx", "JUL 25",
                   RowOf(<< [k |-> "TOTAL REJECTED", v |-> Num(3)],
                            [k |-> "RECEIVED QTY", v |-> Num(50)],
                            [k |-> "INSPECTED QTY", v |-> Num(40)],
                            [k |-> "ACCEPTED QTY", v |-> Num(37)] >>, 2)) }

RowItems == MonthInspectionItems \cup MonthProductionItems \cup SignedItems \cup HeadedItems

RowInit ==
    /\ rw_item \in RowItems
    /\ rw_result = NotParsed
    /\ rw_agg = NotParsed
    /\ cl_name = "" /\ cl_result = "pending" /\ pa_defects = <<>> /\ pa_chart = NoChart
    /\ NoDates /\ NoScoring /\ NoSheet /\ NoValidation /\ NoKpis
    /\ NoPipeline

\* validate_parsed_data reaches the row: the rules of its file type are applied
ValidateRow ==
    /\ ~rw_result.called
    /\ rw_result' = [called |-> TRUE,
                     returned |-> validate_row(rw_item.file_type, rw_item.row,
                                               rw_item.sheet, NewValidationResult)]
    /\ UNCHANGED <<rw_item, rw_agg, cvars, pavars, dsvars, hsvars, shvars, vdvars, kpvars, pvars>>

\* compute_statistics reaches the row: it is folded into a new aggregator
ExtractRow ==
    /\ rw_result.called
    /\ ~rw_agg.called
    /\ rw_agg' = [called |-> TRUE, returned |-> fold_row(NewAggregator, rw_item)]
    /\ UNCHANGED <<rw_item, rw_result, cvars, pavars, dsvars, hsvars, shvars, vdvars, kpvars, pvars>>

RowNext == ValidateRow \/ ExtractRow

SpecRow == RowInit /\ [][RowNext]_vars

-----------------------------------------------------------------------------
(* compute_kpis over the rows of a small batch: a production file with one   *)
(* row per month and an inspection file with one sheet per month             *)

\* the quantities produced in a month
KpiProduced == { 0, 100, 200 }
\* the quantities rejected in a month
KpiRejected == { 0, 1, 3, 7, 250 }
\* the month cells of the production rows
KpiMonths == << "2025-04", "2025-05" >>
\* the inspection sheets of the same months
KpiSheets == << "APR 25", "MAY 25" >>
\* the day compute_kpis runs
KpiToday == MkDate(2025, 6, 1)

ProducedItem(m, produced) ==
    RowItem("production_cumulative", "YEARLY PRODUCTION COMMULATIVE 2025-26.xlsx",
            "Production",
            RowOf(<< [k |-> "MONTH", v |-> Str(KpiMonths[m])],
                     [k |-> "PRODUCTION QTY", v |-> Num(produced)] >>, m + 1))

RejectedItem(m, rejected) ==
    RowItem("assembly", "ASSEMBLY REJECTION REPORT.xlsx", KpiSheets[m],
            RowOf(<< [k |-> "RECEIVED QTY", v |-> Num(300)],
                     [k |-> "REJECTED QTY", v |-> Num(rejected)] >>, 2))

\* two months in either order of their rows, one month, and inspection rows alone
KpiBatches ==
    { << ProducedItem(first, p1), ProducedItem(3 - first, p2),
         RejectedItem(1, r1), RejectedItem(2, r2) >> :
        first \in 1..2, p1 \in KpiProduced, p2 \in KpiProduced,
        r1 \in KpiRejected, r2 \in KpiRejected }
    \cup { << ProducedItem(m, p), RejectedItem(1, r1), RejectedItem(2, r2) >> :
             m \in 1..2, p \in KpiProduced, r1 \in KpiRejected, r2 \in KpiRejected }
    \cup { << RejectedItem(m, r) >> : m \in 1..2, r \in KpiRejected }

KpisInit ==
    /\ kp_items \in KpiBatches
    /\ kp_agg = NotParsed
    /\ kp_kpis = NotParsed
    /\ cl_name = "" /\ cl_result = "pending" /\ pa_defects = <<>> /\ pa_chart = NoChart
    /\ NoDates /\ NoScoring /\ NoSheet /\ NoValidation /\ NoRow
    /\ NoPipeline

\* the extraction loops of compute_statistics fold the rows into a new aggregator
ExtractKpiRows ==
    /\ ~kp_agg.called
    /\ kp_agg' = [called |-> TRUE, returned |-> FoldFrom(NewAggregator, kp_items, 1)]
    /\ UNCHANGED <<kp_items, kp_kpis, cvars, pavars, dsvars, hsvars, shvars, vdvars, rwvars, pvars>>

\* compute_statistics calls compute_kpis on the aggregator
ComputeKpis ==
    /\ kp_agg.called
    /\ ~kp_kpis.called
    /\ kp_kpis' = [called |-> TRUE, returned |-> compute_kpis(kp_agg.returned, KpiToday)]
    /\ UNCHANGED <<kp_items, kp_agg, cvars, pavars, dsvars, hsvars, shvars, vdvars, rwvars, pvars>>

KpisNext == ExtractKpiRows \/ ComputeKpis

SpecKpis == KpisInit /\ [][KpisNext]_vars

-----------------------------------------------------------------------------
(* Properties *)

HasEvent(u, e) == \E k \in 1..Len(log[u]) : log[u][k] = e

StageStatuses == <<"parsing", "validating", "computing", "completed">>
StageRank(status) == CHOOSE r \in 1..Len(StageStatuses) : StageStatuses[r] = status
IsStageStatus(e) == \E r \in 1..Len(StageStatuses) : StageStatuses[r] = e
IsStatus(e) == IsStageStatus(e) \/ e = "failed"

\* the statuses the run has written, in the order it wrote them
StatusWrites(history) == SelectSeq(history, IsStatus)
StageWrites(history) == SelectSeq(history, IsStageStatus)

PositionOf(history, e) ==
    IF \E k \in 1..Len(history) : history[k] = e
    THEN CHOOSE k \in 1..Len(history) : history[k] = e /\ \A j \in 1..(k - 1) : history[j] # e
    ELSE 0

ValidationEndedOverHalf(u) ==
    /\ HasEvent(u, "validate.return")
    /\ 2 * task[u].validation_result.error_rows > task[u].validation_result.total_rows

\* C1: whenever validation has ended with error_rows > 0.5 * total_rows,
\* compute_statistics is never invoked and no statistics are produced or
\* stored for the upload, and once process_files has ended the session is
\* FAILED and its errors are the first ten validation error messages.
C1_AbortLaw ==
    \A u \in Uploads :
        ValidationEndedOverHalf(u) =>
            /\ ~HasEvent(u, "compute.start")
            /\ task[u].stats = Nil
            /\ get_processed_stats(processed_data[u]) = Nil
            /\ task[u].pc \in {"check", "done"}
            /\ task[u].pc = "done" =>
                  /\ session[u].status = "failed"
                  /\ StatusWrites(log[u])[Len(StatusWrites(log[u]))] = "failed"
                  /\ session[u].errors =
                        [k \in 1..Min(10, Len(task[u].validation_result.errors)) |->
                            task[u].validation_result.errors[k].message]

\* a run aborted with more than ten validation errors, of which ten are surfaced
C1_Witness ==
    \E u \in Uploads :
        /\ ValidationEndedOverHalf(u)
        /\ task[u].pc = "done"
        /\ Len(task[u].validation_result.errors) > 10
        /\ Len(session[u].errors) = 10

CancelReturned(u) == cancels[u] > 0 /\ cancel_pc[u] = "idle"

\* C2: once cancel_upload has returned for an upload, its process_files task
\* writes no further status and stores no computed statistics.
C2_CancelStopsTask ==
    [][\A u \in Uploads :
          (CancelReturned(u) /\ task[u].pc # "done") =>
              /\ StatusWrites(log'[u]) = StatusWrites(log[u])
              /\ get_processed_stats(processed_data'[u]) = get_processed_stats(processed_data[u])]_vars

\* the running totals of the chart's entries, which are in descending-count order
ParetoCumulative(chart, k) == SumSeq([j \in 1..k |-> chart.defects[j].count])

ReachesEighty(chart, k) ==
    ParetoCumulative(chart, k) * 100 >= 80 * ParetoCumulative(chart, Len(chart.defects))

\* C3: threshold_80 is the (0-based) index of the first entry whose running
\* cumulative percentage reaches or exceeds 80%.
C3_ThresholdFirstReaching80 ==
    (pa_chart # NoChart /\ Len(pa_chart.defects) > 0) =>
        /\ ReachesEighty(pa_chart, pa_chart.threshold_80 + 1)
        /\ \A k \in 1..pa_chart.threshold_80 : ~ReachesEighty(pa_chart, k)

TrendPoints(stats) ==
    UNION { SeqToSet(stats.rejection_trend.series[k].data) :
              k \in 1..Len(stats.rejection_trend.series) }
    \cup UNION { SeqToSet(stats.visual_defect_trends[k].monthly_data) :
                   k \in 1..Len(stats.visual_defect_trends) }

\* C4: every statistic of a computed StatsResponse (the KPIData, every
\* StageKPI, every TrendDataPoint, every DefectData) carries at least one
\* DataSource.
C4_Provenance ==
    \A u \in Uploads :
        task[u].stats # Nil =>
            LET stats == task[u].stats[1]
            IN  /\ Len(stats.kpis.sources) >= 1
                /\ \A k \in 1..Len(stats.stage_kpis) : Len(stats.stage_kpis[k].sources) >= 1
                /\ \A point \in TrendPoints(stats) : Len(point.sources) >= 1
                /\ \A k \in 1..Len(stats.defect_pareto.defects) :
                       Len(stats.defect_pareto.defects[k].sources) >= 1

\* C5: two runs of the pipeline on the same input files produce equal
\* StatsResponse objects.
C5_Determinism ==
    \A u, v \in Uploads :
        (task[u].stats # Nil /\ task[v].stats # Nil /\ file_paths[u] = file_paths[v]
         /\ task[u].parsed_files = task[v].parsed_files)
            => task[u].stats = task[v].stats

\* C6: validate_parsed_data starts only after parse_multiple_files has
\* returned, compute_statistics only after validate_parsed_data has returned,
\* and the stage statuses the run writes are strictly increasing in the order
\* PARSING, VALIDATING, COMPUTING, COMPLETED.
C6_StagesInOrder ==
    \A u \in Uploads :
        LET history == log[u]
            stages == StageWrites(history)
        IN  /\ HasEvent(u, "validate.start") =>
                  /\ HasEvent(u, "parse.return")
                  /\ PositionOf(history, "parse.start") < PositionOf(history, "parse.return")
                  /\ PositionOf(history, "parse.return") < PositionOf(history, "validate.start")
            /\ HasEvent(u, "compute.start") =>
                  /\ HasEvent(u, "validate.return")
                  /\ PositionOf(history, "validate.return") < PositionOf(history, "compute.start")
            /\ HasEvent(u, "compute.return") =>
                  PositionOf(history, "compute.start") < PositionOf(history, "compute.return")
            /\ \A k \in 1..(Len(stages) - 1) : StageRank(stages[k]) < StageRank(stages[k + 1])
            /\ HasEvent(u, "parse.start") => PositionOf(history, "parsing") = 1
            /\ HasEvent(u, "validate.start") =>
                  PositionOf(history, "validating") \in
                      (PositionOf(history, "parse.return") + 1)..(PositionOf(history, "validate.start") - 1)
            /\ HasEvent(u, "compute.start") =>
                  PositionOf(history, "computing") \in
                      (PositionOf(history, "validate.return") + 1)..(PositionOf(history, "compute.start") - 1)

\* a run that went through all three stages and wrote COMPLETED
C6_Witness ==
    \E u \in Uploads :
        /\ StageWrites(log[u]) = StageStatuses
        /\ HasEvent(u, "compute.return")

\* C7: when a stage of process_files has raised and the run has ended, the
\* session is FAILED with completed_at set and the exception message as its
\* errors, and the run has not written COMPLETED.
C7_ExceptionFails ==
    \A u \in Uploads :
        (task[u].exc # Nil /\ task[u].pc = "done") =>
            /\ session[u].status = "failed"
            /\ session[u].completed_at # Nil
            /\ session[u].errors = <<task[u].exc[1]>>
            /\ ~HasEvent(u, "completed")
            /\ StatusWrites(log[u])[Len(StatusWrites(log[u]))] = "failed"

\* a run ended by an exception raised after the statistics were computed
C7_Witness ==
    \E u \in Uploads :
        /\ task[u].exc = Some(<<"raised in", "save_stats">>)
        /\ task[u].pc = "done"
        /\ session[u].status = "failed"

RECURSIVE ParseAlone(_, _, _)
\* parse_multiple_files on a batch whose files are all in place
ParseAlone(paths, k, results) ==
    IF k > Len(paths) THEN results
    ELSE ParseAlone(paths, k + 1,
                    DictPut(results, detect_file_type(paths[k]),
                            Append(DictGet(results, detect_file_type(paths[k]), <<>>),
                                   parse_excel_file(workbook_at(paths[k]), TRUE))))

RECURSIVE FoldsAlone(_, _, _)
\* the aggregator before and after each row of the batch, folded with no other batch around
FoldsAlone(agg, items, k) ==
    IF k > Len(items) THEN <<agg>>
    ELSE <<agg>> \o FoldsAlone(fold_row(agg, items[k]), items, k + 1)

\* what each batch of the concurrent runs produces when it is run alone
Alone ==
    [paths \in { PathsOf(files) : files \in ConcurrentBatches } |->
        FoldsAlone(NewAggregator, fold_order(ParseAlone(paths, 1, EmptyResults)), 1)]

\* C8: at every point of every interleaving of two concurrently processed
\* batches, the aggregator a compute_statistics call folds into holds exactly
\* what the batch's own rows give when the batch is run alone, and the
\* statistics returned are the ones derived from that aggregator.
C8_BatchIsolation ==
    \A u \in Uploads :
        /\ (task[u].pc = "compute" /\ task[u].aggregator # 0) =>
               /\ task[u].i <= Len(Alone[file_paths[u]])
               /\ heap[task[u].aggregator] = Alone[file_paths[u]][task[u].i]
        /\ task[u].pc = "save_stats" =>
               LET alone == Alone[file_paths[u]]
               IN  task[u].stats =
                       Some(stats_of(alone[Len(alone)], task[u].today, task[u].stats[1].generated_at))

\* both uploads are inside compute_statistics with different rows already folded
C8_Witness ==
    /\ \A u \in Uploads : task[u].pc = "compute" /\ task[u].aggregator # 0 /\ task[u].i > 1
    /\ task[1].aggregator # task[2].aggregator
    /\ heap[task[1].aggregator] # heap[task[2].aggregator]

\* the files load_workbook cannot open or that yield no usable sheet
UnusableFiles ==
    { f.name : f \in { w \in Workbooks :
                         w.corrupt \/ ParseSheetsFrom(w.sheets, 1, w.name) = <<>> } }

\* the ParseResults of a result dict in one sequence
AllResults(parsed_files) ==
    [k \in 1..SumSeq([t \in 1..Len(parsed_files) |-> Len(parsed_files[t].v)]) |->
        LET t == CHOOSE t \in 1..Len(parsed_files) :
                    /\ SumSeq([x \in 1..(t - 1) |-> Len(parsed_files[x].v)]) < k
                    /\ k <= SumSeq([x \in 1..t |-> Len(parsed_files[x].v)])
        IN  parsed_files[t].v[k - SumSeq([x \in 1..(t - 1) |-> Len(parsed_files[x].v)])]]

\* C9: when parse_multiple_files has returned there is exactly one ParseResult
\* per input file; every file that is unreadable or has no usable sheet has
\* success = false and at least one error message, and every other file of
\* the batch that is in place is parsed.
C9_ParseFailureDoesNotStopBatch ==
    \A u \in Uploads :
        HasEvent(u, "parse.return") =>
            LET results == AllResults(task[u].parsed_files)
            IN  /\ Len(results) = Len(file_paths[u])
                /\ \A k \in 1..Len(file_paths[u]) :
                       Cardinality({ r \in 1..Len(results) :
                                        results[r].file_name = file_paths[u][k] }) = 1
                /\ \A r \in 1..Len(results) :
                       /\ results[r].file_name \in UnusableFiles =>
                              ~results[r].success /\ Len(results[r].errors) >= 1
                       /\ ~results[r].success => Len(results[r].errors) >= 1
                       /\ (results[r].file_name \notin UnusableFiles /\ cancels[u] = 0) =>
                              results[r].success /\ Len(results[r].sheets) >= 1

\* a batch whose first file cannot be opened and whose second file is parsed
C9_Witness ==
    \E u \in Uploads :
        /\ HasEvent(u, "parse.return")
        /\ file_paths[u] = PathsOf(<<CorruptFile, ProductionFile>>)
        /\ \E r1, r2 \in 1..Len(AllResults(task[u].parsed_files)) :
              LET results == AllResults(task[u].parsed_files)
              IN  /\ results[r1].file_name = CorruptFile.name /\ ~results[r1].success
                  /\ results[r2].file_name = ProductionFile.name /\ results[r2].success

\* the groups of the table that have a pattern matching the name
MatchingGroups(name) ==
    { g \in 1..Len(FILE_TYPE_PATTERNS) :
        \E k \in 1..Len(FILE_TYPE_PATTERNS[g].patterns) :
            re_search(FILE_TYPE_PATTERNS[g].patterns[k], name) }

\* C10: detect_file_type returns the category of the first group, in table
\* order, with a pattern matching the lower-cased filename, and Unknown
\* exactly when no pattern of any group matches.
C10_FirstMatchWins ==
    cl_result # "pending" =>
        LET groups == MatchingGroups(StrLower(cl_name))
        IN  /\ groups # {} =>
                  cl_result = FILE_TYPE_PATTERNS[CHOOSE g \in groups : \A h \in groups : g <= h].file_type
            /\ (cl_result = "unknown") <=> (groups = {})

\* a classified name that matches both the ProductionCumulative and the Cumulative group
C10_Witness ==
    /\ cl_result = "production_cumulative"
    /\ {1, 2} \subseteq MatchingGroups(StrLower(cl_name))

-----------------------------------------------------------------------------
\* the proleptic Gregorian ordinal of a date: the number of days from
\* 0001-01-01 to it, counted year by year and month by month
Ordinal(date) ==
    LET y == date.y - 1
    IN  365 * y + y \div 4 - y \div 100 + y \div 400
        + SumSeq([k \in 1..(date.m - 1) |-> DaysInMonth(date.y, k)]) + date.d

\* C11: excel_serial_to_date returns no date for every numeric serial below 1,
\* the calendar date n days after 1899-12-30 for every other numeric serial n
\* (45748 falls in April 2025), and a native date unchanged.
C11_SerialIsEpochOffset ==
    ds_date.called =>
        /\ (IsNum(ds_serial) /\ ds_serial.n < 1) => ds_date.date = NoDate
        /\ (IsNum(ds_serial) /\ ds_serial.n >= 1) =>
               /\ ds_date.date # NoDate
               /\ ds_date.date.m \in 1..12
               /\ ds_date.date.d \in 1..DaysInMonth(ds_date.date.y, ds_date.date.m)
               /\ Ordinal(ds_date.date) = Ordinal(MkDate(1899, 12, 30)) + ds_serial.n
        /\ ds_serial = Num(45748) => ds_date.date.y = 2025 /\ ds_date.date.m = 4
        /\ IsDate(ds_serial) => ds_date.date = date_of(ds_serial)

-----------------------------------------------------------------------------
\* the cells of a row that are neither None nor a blank string
NonEmptyCells(row) ==
    { i \in 1..Len(row) : ~(IsNone(row[i]) \/ (IsStr(row[i]) /\ Strip(row[i].s) = "")) }

KeywordBearing(v) ==
    IsStr(v) /\ \E keyword \in HEADER_KEYWORDS : Contains(StrLower(v.s), keyword)

AllKeywordStrings(row) ==
    NonEmptyCells(row) # {} /\ \A i \in NonEmptyCells(row) : KeywordBearing(row[i])

AllNumbers(row) ==
    NonEmptyCells(row) # {} /\ \A i \in NonEmptyCells(row) : IsNum(row[i])

\* C12: score_row_as_header returns exactly 0 for every row without a non-empty
\* cell, and every row whose non-empty cells (at least one) are all
\* keyword-bearing strings scores strictly above every row whose non-empty
\* cells (at least one) are all numbers.
C12_EmptyZeroKeywordsAboveNumbers ==
    hs_scores # <<>> =>
        \A i \in 1..2 :
            /\ NonEmptyCells(hs_rows[i]) = {} => hs_scores[i].num = 0
            /\ \A j \in 1..2 :
                   (AllKeywordStrings(hs_rows[i]) /\ AllNumbers(hs_rows[j]))
                       => hs_scores[i].num * hs_scores[j].den
                              > hs_scores[j].num * hs_scores[i].den

\* both rows scored: a row of blanks only, next to a row of more than ten numbers;
\* or a one-keyword row next to a row of more than ten numbers
C12_Witness ==
    /\ hs_scores # <<>>
    /\ \/ /\ Len(hs_rows[1]) = 2 /\ NonEmptyCells(hs_rows[1]) = {}
          /\ hs_rows[1][2] = Str("  ")
       \/ /\ hs_rows[1] = <<None, Str("Date")>>
          /\ AllNumbers(hs_rows[2]) /\ Len(hs_rows[2]) = 12

-----------------------------------------------------------------------------
\* the value of the first column of the row whose name contains one of the
\* patterns, None when there is no such column
ResolvedValue(row, patterns) ==
    LET hits == { i \in 1..Len(row) :
                    \E pat \in patterns : Contains(StrUpper(row[i].k), pat) }
    IN  IF hits = {} THEN None
        ELSE row[CHOOSE i \in hits : \A j \in hits : i <= j].v

\* the step validated a parsed file of one of the given types
ValidatedRowOf(types) ==
    /\ vd_count' = vd_count + 1
    /\ vd_type' \in types
    /\ vd_item'.success

ProductionQty(row) == get_numeric(ResolvedValue(row, {"PRODUCTION", "PRODUCED", "PROD QTY"}))
RejectionQty(row) ==
    get_numeric(ResolvedValue(row, {"REJECTION", "REJECTED", "TOTAL REJ", "REJ QTY"}))

RejectionExceedsProduction(row) ==
    /\ ProductionQty(row).ok /\ RejectionQty(row).ok
    /\ FloatGt(RejectionQty(row), ProductionQty(row))

\* C13: validating a row of a production-category file adds exactly one error
\* when its production and rejection quantities both resolve to numbers and
\* rejection > production, and adds no error otherwise.
C13_ProductionRowError ==
    [][ValidatedRowOf(PRODUCTION_TYPES) =>
          Len(vd_result'.errors) = Len(vd_result.errors)
              + (IF RejectionExceedsProduction(vd_item'.sheets[1].data[1]) THEN 1 ELSE 0)]_vars

\* production 1000, rejection 1200 validated: one error
C13_Witness ==
    /\ vd_count = 1 /\ vd_type = "production_cumulative" /\ vd_item.success
    /\ ProductionQty(vd_item.sheets[1].data[1]) = Float(1000)
    /\ RejectionQty(vd_item.sheets[1].data[1]) = Float(1200)
    /\ Len(vd_result.errors) = 1

-----------------------------------------------------------------------------
ReceivedQty(row) == get_numeric(ResolvedValue(row, {"RECEIVED", "REC QTY", "INPUT"}))
InspectedQty(row) == get_numeric(ResolvedValue(row, {"INSPECTED", "INSP QTY", "CHECKED"}))
AcceptedQty(row) == get_numeric(ResolvedValue(row, {"ACCEPTED", "ACC QTY", "PASSED"}))
RejectedQty(row) == get_numeric(ResolvedValue(row, {"REJECTED", "REJ QTY", "FAILED"}))

CountMismatch(row) ==
    /\ AcceptedQty(row).ok /\ RejectedQty(row).ok /\ InspectedQty(row).ok
    /\ ~AcceptedQty(row).nan /\ ~RejectedQty(row).nan /\ ~InspectedQty(row).nan
    /\ \/ AcceptedQty(row).n + RejectedQty(row).n - InspectedQty(row).n > 1
       \/ InspectedQty(row).n - AcceptedQty(row).n - RejectedQty(row).n > 1

RejectedExceedsReceived(row) ==
    /\ RejectedQty(row).ok /\ ReceivedQty(row).ok
    /\ FloatGt(RejectedQty(row), ReceivedQty(row))

\* the findings of the list that report an accepted + rejected / inspected mismatch
Mismatches(findings) ==
    { i \in 1..Len(findings) :
        findings[i].message[1] = "Accepted + Rejected doesn't match Inspected" }

\* C14: validating a row of an inspection-category file adds a warning, and no
\* error, for the mismatch exactly when accepted, rejected and inspected all
\* resolve and |accepted + rejected - inspected| > 1 (a difference of exactly 1
\* adds nothing), and adds an error exactly when rejected and received both
\* resolve and rejected > received.
C14_InspectionRowFindings ==
    [][ValidatedRowOf(INSPECTION_TYPES) =>
          LET row == vd_item'.sheets[1].data[1]
          IN  /\ Cardinality(Mismatches(vd_result'.warnings))
                    = Cardinality(Mismatches(vd_result.warnings))
                        + (IF CountMismatch(row) THEN 1 ELSE 0)
              /\ Mismatches(vd_result'.errors) = {}
              /\ Len(vd_result'.errors) = Len(vd_result.errors)
                    + (IF RejectedExceedsReceived(row) THEN 1 ELSE 0)]_vars

\* a row off by 2 validated (one warning), then a row off by exactly 1 whose
\* rejected exceeds received (no further warning, one error each)
C14_Witness ==
    /\ vd_count = 2 /\ vd_type = "assembly" /\ vd_item.success
    /\ AcceptedQty(vd_item.sheets[1].data[1]).n = 90
    /\ RejectedQty(vd_item.sheets[1].data[1]).n = 11
    /\ InspectedQty(vd_item.sheets[1].data[1]) = Float(100)
    /\ ReceivedQty(vd_item.sheets[1].data[1]) = Float(10)
    /\ Cardinality(Mismatches(vd_result.warnings)) = 1
    /\ Len(vd_result.errors) = 2

\* C15: at every point of validate_parsed_data the result is valid iff its
\* error list is empty, and error_rows counts the errors only: a warning
\* neither clears valid nor adds to error_rows.
C15_ValidIffNoErrors ==
    /\ vd_result.valid <=> vd_result.errors = <<>>
    /\ vd_result.error_rows = Len(vd_result.errors)

\* warnings recorded, no error: still valid
C15_Witness ==
    /\ vd_count = 2
    /\ Len(vd_result.warnings) >= 2
    /\ vd_result.errors = <<>>
    /\ vd_result.valid

-----------------------------------------------------------------------------
\* the rows find_header_row looks at
ScannedRows(sheet) == 1..Min(20, max_row(sheet))

\* row r scores at least as high as row q
ScoresAtLeast(sheet, r, q) ==
    LET a == score_row_as_header(sheet.grid[r])
        b == score_row_as_header(sheet.grid[q])
    IN  a.num * b.den >= b.num * a.den

\* the rows that attain the maximum score among the scanned rows
BestRows(sheet) ==
    { r \in ScannedRows(sheet) : \A q \in ScannedRows(sheet) : ScoresAtLeast(sheet, r, q) }

LowestBestRow(sheet) == CHOOSE r \in BestRows(sheet) : \A q \in BestRows(sheet) : r <= q

SomeRowScoresAboveZero(sheet) ==
    \E r \in ScannedRows(sheet) : score_row_as_header(sheet.grid[r]).num > 0

\* C16 as stated: the header row is the lowest-indexed row attaining the
\* maximum header score among the first 20 rows (which is row 1 when every
\* row scores 0).
C16_HeaderIsLowestBestRow ==
    (sh_parsed.called /\ max_row(sh_sheet) >= 2)
        => sh_header_row = LowestBestRow(sh_sheet)

\* C16 as amended: the header row is the lowest-indexed row attaining the
\* maximum header score among the first 20 rows when that maximum is above 0,
\* and row 1 when no row among the first 20 scores above 0.
C16_HeaderIsLowestBestPositiveRow ==
    (sh_parsed.called /\ max_row(sh_sheet) >= 2)
        => sh_header_row = IF SomeRowScoresAboveZero(sh_sheet)
                           THEN LowestBestRow(sh_sheet) ELSE 1

\* a tie for the best score between rows 2 and 3, settled for row 2; or the
\* best row lying beyond the twenty rows scanned
C16_Witness ==
    /\ sh_parsed.called
    /\ \/ /\ max_row(sh_sheet) = 3 /\ BestRows(sh_sheet) = {2, 3} /\ sh_header_row = 2
          /\ SomeRowScoresAboveZero(sh_sheet)
       \/ /\ max_row(sh_sheet) = 22
          /\ sh_sheet.grid[21] = <<Str("Date"), Str("Rejected Qty")>>
          /\ sh_header_row = 1

-----------------------------------------------------------------------------
\* the header cell of column c is empty, so that the column gets a placeholder name
EmptyHeaderCell(sheet, h, c) ==
    LET v == sheet.grid[h][c]
    IN  IsNone(v) \/ v = Str("") \/ v = Num(0)

\* the columns at the end of the sheet whose header cells are all empty
TrailingPlaceholders(sheet, h) ==
    { c \in 1..max_column(sheet) :
        \A later \in c..max_column(sheet) : EmptyHeaderCell(sheet, h, later) }

\* column c holds a value in one of the k rows that follow the header row
HasDataWithin(sheet, h, c, k) ==
    \E r \in (h + 1)..Min(h + k, max_row(sheet)) : ~IsNone(sheet.grid[r][c])

\* C17: a trailing column with an empty header cell is dropped iff it has no
\* data in the 10 rows following the header row; with a value in any of those
\* 10 rows, the 10th included, it is kept (and with it the columns before it).
C17_TrailingDroppedIffNoDataInTenRows ==
    (sh_parsed.called /\ sh_parsed.returned # <<>>) =>
        \A c \in TrailingPlaceholders(sh_sheet, sh_header_row) :
            (c <= Len(sh_parsed.returned[1].headers))
                <=> \E later \in c..max_column(sh_sheet) :
                        HasDataWithin(sh_sheet, sh_header_row, later, 10)

-----------------------------------------------------------------------------
\* a fully blank row: every cell is None, white space or an Excel error value
\* (which extraction reads as no value)
BlankRow(sheet, r) ==
    \A c \in 1..max_column(sheet) :
        LET v == sheet.grid[r][c]
        IN  IsNone(v) \/ (IsStr(v) /\ (Strip(v.s) = "" \/ Strip(v.s) \in EXCEL_ERRORS))

\* more than 10 consecutive blank rows lie between the header row and row r
LongRunBefore(sheet, h, r) ==
    \E a \in (h + 1)..(r - 11) : \A q \in a..(a + 10) : BlankRow(sheet, q)

ExtractedData == IF sh_parsed.returned = <<>> THEN <<>> ELSE sh_parsed.returned[1].data

\* C18: of the rows below the header row, parse_sheet extracts exactly the
\* non-blank rows that no run of more than 10 consecutive blank rows precedes,
\* each once, in sheet order, with its 1-based sheet row index as _source_row:
\* a row after a run of at most 10 blank rows is extracted, a row after a
\* longer run never is.
C18_BlankRunsUpToTen ==
    (sh_parsed.called /\ max_row(sh_sheet) >= 2) =>
        /\ \A r \in (sh_header_row + 1)..max_row(sh_sheet) :
               (\E i \in 1..Len(ExtractedData) : source_row(ExtractedData[i]) = r)
                   <=> (~BlankRow(sh_sheet, r) /\ ~LongRunBefore(sh_sheet, sh_header_row, r))
        /\ \A i \in 1..Len(ExtractedData) :
               /\ source_row(ExtractedData[i]) \in (sh_header_row + 1)..max_row(sh_sheet)
               /\ i > 1 => source_row(ExtractedData[i - 1]) < source_row(ExtractedData[i])

\* a run of exactly 10 blank rows, the row after it extracted, then a run of 11,
\* the row after it not extracted
C18_Witness ==
    /\ sh_parsed.called
    /\ sh_sheet = GapSheet(10, 11)
    /\ Len(ExtractedData) = 2
    /\ source_row(ExtractedData[2]) = 13

-----------------------------------------------------------------------------
\* C19: every extracted row holds one key per column of the sheet's headers,
\* the keys distinct, each with the value of its own column: when two header
\* cells normalise to the same name neither column's value is overwritten by
\* the other's.
C19_DuplicateHeadersKeptApart ==
    (sh_parsed.called /\ sh_parsed.returned # <<>>) =>
        LET headers == sh_parsed.returned[1].headers
        IN  \A i \in 1..Len(ExtractedData) :
                LET row == ExtractedData[i]
                IN  /\ Len(row) = Len(headers) + 1
                    /\ \A c \in 1..Len(headers) :
                           /\ row[c].v = clean_value(sh_sheet.grid[source_row(row)][c])
                           /\ \A other \in 1..Len(headers) : row[other].k = row[c].k => other = c

-----------------------------------------------------------------------------
\* the places of an aggregator's accumulators that hold a sum
AccumulatorPlaces(agg) ==
    { <<"production", "", agg.production[i].k, name>> :
          i \in 1..Len(agg.production), name \in {"produced", "dispatched"} }
    \cup UNION { UNION { { <<"stages", agg.stages[i].k, agg.stages[i].v[j].k, name>> :
                             name \in {"inspected", "accepted", "rejected", "received"} } :
                         j \in 1..Len(agg.stages[i].v) } :
                 i \in 1..Len(agg.stages) }
    \cup UNION { { <<"defects", agg.defects[i].k, agg.defects[i].v[j].k, "count">> :
                     j \in 1..Len(agg.defects[i].v) } :
                 i \in 1..Len(agg.defects) }

\* the finite sum held at a place
AccumulatedAt(agg, place) ==
    IF place[1] = "production" THEN DictGet(agg.production, place[3], <<>>)[place[4]]
    ELSE IF place[1] = "stages"
         THEN DictGet(DictGet(agg.stages, place[2], <<>>), place[3], <<>>)[place[4]]
    ELSE DictGet(DictGet(agg.defects, place[2], <<>>), place[3], 0)

\* every sum of the aggregator is a number >= 0
AllNonNegative(agg) ==
    \A place \in AccumulatorPlaces(agg) :
        place \notin agg.nan /\ AccumulatedAt(agg, place) >= 0

\* from one aggregator to its next value no entry is removed and no sum decreases
GrowsTo(agg, next) ==
    \A place \in AccumulatorPlaces(agg) :
        /\ place \in AccumulatorPlaces(next)
        /\ place \notin next.nan
        /\ AccumulatedAt(next, place) >= AccumulatedAt(agg, place)

\* C20: during a compute_statistics run every value in the production, stage
\* and defect accumulators is non-negative and never decreases, and no entry
\* is ever removed.
C20_AccumulatorsGrow ==
    [][\A h \in 1..Len(heap') :
          /\ AllNonNegative(heap'[h])
          /\ h <= Len(heap) => GrowsTo(heap[h], heap'[h])]_vars

-----------------------------------------------------------------------------
\* the row the next FoldRow step of the upload folds
FoldedItem(u) == fold_order(task[u].parsed_files)[task[u].i]

\* the step folded a row of the upload into its aggregator and changed it
FoldedInto(u) ==
    /\ task[u].pc = "compute" /\ task[u].aggregator # 0
    /\ task'[u].i = task[u].i + 1
    /\ heap'[task[u].aggregator] # heap[task[u].aggregator]

\* the validator recorded an error against the row
RaisedError(result, item) ==
    \E k \in 1..Len(result.errors) :
        /\ result.errors[k].source.file_name = item.sheet.file_name
        /\ result.errors[k].source.sheet_name = item.sheet.name
        /\ result.errors[k].source.row_numbers = <<source_row(item.row)>>

\* the file the row was parsed from, among the parsed files of the upload
FromParsedFile(u, item) ==
    LET results == DictGet(task[u].parsed_files, item.file_type, <<>>)
    IN  \E k \in 1..Len(results) :
            results[k].success /\ results[k].file_name = item.sheet.file_name

\* C21: every row that contributes to the accumulators belongs to a file with
\* success = true and raised no validation error.
C21_FoldsOnlyValidatedRows ==
    [][\A u \in Uploads :
          FoldedInto(u) =>
              /\ FromParsedFile(u, FoldedItem(u))
              /\ ~RaisedError(task[u].validation_result, FoldedItem(u))]_vars

-----------------------------------------------------------------------------
\* C24: after validate_parsed_data the counts satisfy 0 <= valid_rows <=
\* total_rows and error_rows <= total_rows, also for batches that hold files
\* that failed to parse.
C24_CountsWithinTotal ==
    vd_type = "returned" =>
        /\ 0 <= vd_result.valid_rows
        /\ vd_result.valid_rows <= vd_result.total_rows
        /\ vd_result.error_rows <= vd_result.total_rows

-----------------------------------------------------------------------------
\* the six categories whose rows a validation rule is applied to
KNOWN_TYPES == PRODUCTION_TYPES \cup INSPECTION_TYPES

\* C29: every row added to total_rows is a row of a successfully parsed file
\* of one of the six known categories, the rows validate_production_row or
\* validate_inspection_row is applied to; rows of files of unknown category
\* are not counted.
C29_TotalRowsAreValidatedRows ==
    [][vd_result'.total_rows # vd_result.total_rows =>
          /\ vd_item'.success
          /\ vd_type' \in KNOWN_TYPES]_vars

-----------------------------------------------------------------------------
TERMINAL_STATUSES == {"failed", "completed"}

\* C25: once the session of an upload has status FAILED or COMPLETED, no later
\* step of process_files or cancel_upload changes that upload's status.
C25_TerminalStatusAbsorbing ==
    [][\A u \in Uploads :
          session[u].status \in TERMINAL_STATUSES =>
              session'[u].status = session[u].status]_vars

-----------------------------------------------------------------------------
\* C30: whenever the session of an upload has status COMPLETED, the computed
\* statistics of that upload are stored and can be read.
C30_CompletedHasStats ==
    \A u \in Uploads :
        session[u].status = "completed" => get_processed_stats(processed_data[u]) # Nil

\* an upload completed, with its statistics stored by the SaveStats step before
C30_Witness ==
    \E u \in Uploads :
        /\ session[u].status = "completed"
        /\ task[u].pc = "done"
        /\ processed_data[u].exists
        /\ processed_data[u].computed_stats # Nil

-----------------------------------------------------------------------------
\* "YYYY-MM": four digits, a dash, and two digits that number a month
CanonicalMonthKey(key) ==
    /\ Len(key) = 7
    /\ AllDigits(SubSeq(key, 1, 4))
    /\ CharAt(key, 5) = "-"
    /\ AllDigits(SubSeq(key, 6, 7))
    /\ DigitsToNat(SubSeq(key, 6, 7), 0) \in 1..12

\* C22: every month key of every accumulator entry is a canonical "YYYY-MM"
\* string, whether it came from a date-like column, from a month token in the
\* sheet name, or from the fallback month.
C22_MonthKeysCanonical ==
    rw_agg.called =>
        \A place \in AccumulatorPlaces(rw_agg.returned) : CanonicalMonthKey(place[3])

-----------------------------------------------------------------------------
\* the patterns validate_inspection_row resolves each quantity with
VALIDATOR_PATTERNS ==
    [received |-> <<"RECEIVED", "REC QTY", "INPUT">>,
     inspected |-> <<"INSPECTED", "INSP QTY", "CHECKED">>,
     accepted |-> <<"ACCEPTED", "ACC QTY", "PASSED">>,
     rejected |-> <<"REJECTED", "REJ QTY", "FAILED">>]

\* the patterns extract_from_inspection resolves each quantity with
AGGREGATOR_PATTERNS ==
    [received |-> <<"RECEIVED", "REC", "INPUT">>,
     inspected |-> <<"INSPECTED", "INSP", "CHECKED", "TOTAL">>,
     accepted |-> <<"ACCEPTED", "ACC", "PASSED", "OK">>,
     rejected |-> <<"REJECTED", "REJ", "FAILED", "NG">>]

\* the row went through the validator and the aggregator as an inspection row
InspectionRowDone ==
    rw_result.called /\ rw_agg.called /\ rw_item.file_type \in INSPECTION_TYPES

\* C26: for every inspection row, the column the aggregator reads as received,
\* inspected, accepted or rejected is the column the validator checked for
\* that field.
C26_SameColumnsResolved ==
    InspectionRowDone =>
        \A field \in DOMAIN VALIDATOR_PATTERNS :
            find_column_value(rw_item.row, AGGREGATOR_PATTERNS[field]).key
                = find_column(rw_item.row, VALIDATOR_PATTERNS[field]).key

-----------------------------------------------------------------------------
\* the amount of a field the aggregator added for the row
AddedAmount(agg, field) ==
    LET places == { p \in AccumulatorPlaces(agg) : p[1] = "stages" /\ p[4] = field }
    IN  IF places = {} THEN 0 ELSE AccumulatedAt(agg, CHOOSE p \in places : TRUE)

\* the validator recorded no error against the row
NoErrorRaised == Len(rw_result.returned.errors) = 0

\* rejected and received both resolve to numbers for the validator
BothResolve ==
    /\ get_numeric(find_column(rw_item.row, VALIDATOR_PATTERNS.rejected).value).ok
    /\ get_numeric(find_column(rw_item.row, VALIDATOR_PATTERNS.received).value).ok

\* C27: for every inspection row that raised no validation error and whose
\* rejected and received quantities both resolve, the rejected amount the
\* aggregator adds, after the coercion to the absolute value, does not exceed
\* the received amount it adds.
C27_RejectedWithinReceived ==
    (InspectionRowDone /\ NoErrorRaised /\ BothResolve) =>
        AddedAmount(rw_agg.returned, "rejected") <= AddedAmount(rw_agg.returned, "received")


-----------------------------------------------------------------------------
\* the year and the month a canonical month key names, as one number
MonthNumber(key) == DigitsToNat(SubSeq(key, 1, 4), 0) * 12 + DigitsToNat(SubSeq(key, 6, 7), 0)

\* the production months, and the one with `later` months after it in the calendar
ProductionMonths(agg) == SeqToSet(DictKeys(agg.production))
MonthFromEnd(agg, later) ==
    CHOOSE m \in ProductionMonths(agg) :
        Cardinality({ o \in ProductionMonths(agg) : MonthNumber(o) > MonthNumber(m) }) = later

\* rate of the latest month minus rate of the second-latest month
RateChange(agg) ==
    DblSubtract(month_rate(agg, MonthFromEnd(agg, 0)), month_rate(agg, MonthFromEnd(agg, 1)))

TrendThresholds(agg, kpis) ==
    IF Cardinality(ProductionMonths(agg)) >= 2
    THEN /\ kpis.rejection_trend = "up" <=> DblGtHalf(RateChange(agg))
         /\ kpis.rejection_trend = "down" <=> DblLtMinusHalf(RateChange(agg))
         /\ kpis.rejection_trend \in { "up", "down", "stable" }
    ELSE kpis.rejection_trend = "stable" /\ kpis.rejection_rate_change = 0

\* C23: compute_kpis classifies the trend from rate_change = rate of the latest
\* month minus rate of the second-latest month, the months in the calendar order
\* of their keys: "up" iff rate_change > 0.5, "down" iff rate_change < -0.5,
\* otherwise "stable", so that exactly 0.5 or -0.5 is stable; with fewer than two
\* months the trend is "stable" and the change is 0.
C23_TrendThresholds ==
    kp_kpis.called => TrendThresholds(kp_agg.returned, kp_kpis.returned)

\* a change of exactly 0.5 between two months whose rows came latest month first
C23_Witness ==
    /\ kp_kpis.called
    /\ Cardinality(ProductionMonths(kp_agg.returned)) = 2
    /\ kp_items[1].row # kp_items[2].row
    /\ DictKeys(kp_agg.returned.production)[1] = MonthFromEnd(kp_agg.returned, 0)
    /\ RateChange(kp_agg.returned) = DblDivide(1, 2)
    /\ kp_kpis.returned.rejection_trend = "stable"

\* C28: for every reachable accumulator compute_kpis yields
\* 0 <= rejection_rate <= 100 and 0 <= yield_rate <= 100, with rejection_rate = 0
\* and yield_rate = 100 when total_produced is 0 (rates in hundredths).
C28_RatesWithinRange ==
    kp_kpis.called =>
        /\ 0 <= kp_kpis.returned.rejection_rate /\ kp_kpis.returned.rejection_rate <= 10000
        /\ 0 <= kp_kpis.returned.yield_rate /\ kp_kpis.returned.yield_rate <= 10000
        /\ kp_kpis.returned.total_produced = 0 =>
               kp_kpis.returned.rejection_rate = 0 /\ kp_kpis.returned.yield_rate = 10000

====
